---- MODULE Spec2Model ----
(***************************************************************************)
(* A model of sveltekit-service-manager's server core: the ServiceRouter   *)
(* (route templates, priorities, lazy sorting, mounts, reset) and the      *)
(* ServiceManager singleton (Load with its asynchronous boundaries,        *)
(* Reload, the keyed allow-lists and the gateway dispatch function).       *)
(*                                                                         *)
(* Paths and templates are sequences of segments: the code splits both on  *)
(* '/' and drops empty parts before it compiles or matches them.  Every    *)
(* `await` of the code is a separate step of the model, so that the        *)
(* interleavings the single-threaded scheduler allows are the model's.     *)
(***************************************************************************)
EXTENDS Integers, Sequences, FiniteSets, TLC

\* ------------------------------------------------------------------------
\* Bounds of the model
\* ------------------------------------------------------------------------
MaxRoutes == 2      \* routes registered at one time (router specification)
MaxMounts == 1      \* mounts registered on one router (router specification)
MaxCalls  == 2      \* Load / Reload / HMR callback invocations in one behaviour
MaxGwCalls == 2     \* the same, in the gateway specification
MaxDepth  == 2      \* nesting depth followed by handle()
MaxNested == 2      \* mounts of the parent (nested-router specification)
MaxTemplate == 2    \* segments of a template (regex specification)
MaxPathLen == 3     \* segments of a request path (regex specification)
MaxArgs == 2        \* arguments passed to Internal
MaxMiddleware == 2  \* middleware functions of one pipeline
MaxRouteId == 3     \* segments of the gateway's route id
MaxHandlers == 2    \* error handlers registered in one pipeline
MaxOverlap == 2     \* calls of one wrapped handler in progress at a time

\* ------------------------------------------------------------------------
\* Vocabulary
\* ------------------------------------------------------------------------
None == "-"

\* RequestMethods, in the order of USE()'s default argument.
AllMethods == <<"GET", "PUT", "POST", "DELETE", "PATCH", "HEAD", "OPTIONS">>

Methods == {AllMethods[i] : i \in 1..Len(AllMethods)}

\* The methods the requests and the single registrations of the
\* specifications below are made with.
CalledMethods == {"GET", "POST"}

\* Segment constructors: the four classes createPathRegex tells apart.
St(v) == [k |-> "static", v |-> v]
Pa(v) == [k |-> "param", v |-> v]
Op(v) == [k |-> "optional", v |-> v]
Ca(v) == [k |-> "catchall", v |-> v]

\* Request paths: the non-empty segments, and whether one '/' trails them.
RawPath(segs, slash) == [segs |-> segs, slash |-> slash]

\* ------------------------------------------------------------------------
\* Path compiler (createPathRegex / createPrefixRegex)
\* ------------------------------------------------------------------------
SegScore(seg) ==
    IF seg.k = "catchall" THEN -10
    ELSE IF seg.k = "optional" THEN -5
    ELSE IF seg.k = "param" THEN -1
    ELSE 1

RECURSIVE PrioritySum(_, _)
PrioritySum(t, i) ==
    IF i > Len(t) THEN 0 ELSE SegScore(t[i]) + PrioritySum(t, i + 1)

Priority(t) == PrioritySum(t, 1)

IsStaticTemplate(t) == \A i \in 1..Len(t) : t[i].k = "static"

\* The route regex ^...(/?)$ on a normalized path, segment by segment:
\* static '/lit', param '/([^/]+)', optional '(?:/([^/]*))?', catch-all '/(.+)'.
RECURSIVE MatchFrom(_, _, _, _)
MatchFrom(t, i, s, j) ==
    IF i > Len(t) THEN j > Len(s)
    ELSE IF t[i].k = "static"
        THEN j <= Len(s) /\ s[j] = t[i].v /\ MatchFrom(t, i + 1, s, j + 1)
    ELSE IF t[i].k = "param"
        THEN j <= Len(s) /\ MatchFrom(t, i + 1, s, j + 1)
    ELSE IF t[i].k = "optional"
        THEN (j <= Len(s) /\ MatchFrom(t, i + 1, s, j + 1)) \/ MatchFrom(t, i + 1, s, j)
    ELSE \E k \in j..Len(s) : MatchFrom(t, i + 1, s, k + 1)

RouteMatches(t, segs) == MatchFrom(t, 1, segs, 1)

\* The prefix regex ^...(?=/|$): start-anchored only, a catch-all is one
\* segment '/([^/]+)', an optional group is greedy.  The result is the number
\* of leading segments the match consumed, or -1 when the prefix does not match.
RECURSIVE PrefixFrom(_, _, _, _)
PrefixFrom(t, i, s, j) ==
    IF i > Len(t) THEN j - 1
    ELSE IF t[i].k = "static"
        THEN IF j <= Len(s) /\ s[j] = t[i].v THEN PrefixFrom(t, i + 1, s, j + 1) ELSE -1
    ELSE IF t[i].k = "optional"
        THEN LET greedy == IF j <= Len(s) THEN PrefixFrom(t, i + 1, s, j + 1) ELSE -1
             IN  IF greedy # -1 THEN greedy ELSE PrefixFrom(t, i + 1, s, j)
    ELSE IF j <= Len(s) THEN PrefixFrom(t, i + 1, s, j + 1) ELSE -1

matchesPrefix(segs, mount) == PrefixFrom(mount.prefix, 1, segs, 1)

\* ------------------------------------------------------------------------
\* Captures and params
\* ------------------------------------------------------------------------
\* A param value is the sequence of the segments it holds: one segment for a
\* param, the segments a catch-all spans (the string joins them with '/'),
\* none for the empty string.  Params map names to values.
NoParams == <<>>

NoMatch == [ok |-> FALSE, caps |-> <<>>]

\* A spread in which the entries already present are kept.
KeepExisting(a, b) ==
    [n \in (DOMAIN a) \cup (DOMAIN b) |-> IF n \in DOMAIN a THEN a[n] ELSE b[n]]

\* {...a, ...b}: the entries of b override those of a.
Merge(a, b) ==
    [n \in (DOMAIN a) \cup (DOMAIN b) |-> IF n \in DOMAIN b THEN b[n] ELSE a[n]]

\* paramNames: the names of the dynamic segments, in declaration order.
RECURSIVE paramNames(_)
paramNames(t) ==
    IF t = <<>> THEN <<>>
    ELSE IF Head(t).k = "static" THEN paramNames(Tail(t))
    ELSE <<Head(t).v>> \o paramNames(Tail(t))

isCatchAll(t) == \E i \in 1..Len(t) : t[i].k = "catchall"

\* The capture groups of the route regex, in the order the regex engine
\* prefers: an optional group takes a segment when the rest still matches, a
\* catch-all '(.+)' takes as many segments as the rest allows.
RECURSIVE BindFrom(_, _, _, _)
BindFrom(t, i, s, j) ==
    IF i > Len(t) THEN [ok |-> j > Len(s), caps |-> <<>>]
    ELSE IF t[i].k = "static"
        THEN IF j <= Len(s) /\ s[j] = t[i].v THEN BindFrom(t, i + 1, s, j + 1) ELSE NoMatch
    ELSE IF t[i].k = "param"
        THEN LET rest == IF j <= Len(s) THEN BindFrom(t, i + 1, s, j + 1) ELSE NoMatch
             IN  IF rest.ok THEN [ok |-> TRUE, caps |-> <<<<s[j]>>>> \o rest.caps] ELSE NoMatch
    ELSE IF t[i].k = "optional"
        THEN LET taken == IF j <= Len(s) THEN BindFrom(t, i + 1, s, j + 1) ELSE NoMatch
                 skipped == BindFrom(t, i + 1, s, j)
             IN  IF taken.ok THEN [ok |-> TRUE, caps |-> <<<<s[j]>>>> \o taken.caps]
                 ELSE IF skipped.ok THEN [ok |-> TRUE, caps |-> <<<<>>>> \o skipped.caps]
                 ELSE NoMatch
    ELSE LET K == {k \in j..Len(s) : BindFrom(t, i + 1, s, k + 1).ok}
         IN  IF K = {} THEN NoMatch
             ELSE LET k == CHOOSE m \in K : \A n \in K : n <= m
                  IN  [ok |-> TRUE,
                       caps |-> <<SubSeq(s, j, k)>> \o BindFrom(t, i + 1, s, k + 1).caps]

\* The capture groups of the prefix regex, with the same preference.
RECURSIVE PrefixBind(_, _, _, _)
PrefixBind(t, i, s, j) ==
    IF i > Len(t) THEN [ok |-> TRUE, caps |-> <<>>]
    ELSE IF t[i].k = "static"
        THEN IF j <= Len(s) /\ s[j] = t[i].v THEN PrefixBind(t, i + 1, s, j + 1) ELSE NoMatch
    ELSE IF t[i].k = "optional"
        THEN LET taken == IF j <= Len(s) THEN PrefixBind(t, i + 1, s, j + 1) ELSE NoMatch
                 skipped == PrefixBind(t, i + 1, s, j)
             IN  IF taken.ok THEN [ok |-> TRUE, caps |-> <<<<s[j]>>>> \o taken.caps]
                 ELSE IF skipped.ok THEN [ok |-> TRUE, caps |-> <<<<>>>> \o skipped.caps]
                 ELSE NoMatch
    ELSE LET rest == IF j <= Len(s) THEN PrefixBind(t, i + 1, s, j + 1) ELSE NoMatch
         IN  IF rest.ok THEN [ok |-> TRUE, caps |-> <<<<s[j]>>>> \o rest.caps] ELSE NoMatch

\* params[name] = match[index + 1] || '' for each name in turn (a later
\* capture of the same name overrides an earlier one); with a catch-all and
\* one name, params[name] = match[1] || ''.
extractParamsFromMatchMeta(names, catchAll, caps) ==
    IF catchAll /\ Len(names) = 1
    THEN [n \in {names[1]} |-> caps[1]]
    ELSE [n \in {names[i] : i \in 1..Len(names)} |->
            caps[CHOOSE i \in 1..Len(names) :
                    names[i] = n /\ \A j \in 1..Len(names) : names[j] = n => j <= i]]

extractParamsFromMatch(t, segs) ==
    extractParamsFromMatchMeta(paramNames(t), isCatchAll(t), BindFrom(t, 1, segs, 1).caps)

NoPrefixParams(mount, segs) == NoParams

extractPrefixParams(mount, segs) ==
    extractParamsFromMatchMeta(paramNames(mount.prefix), isCatchAll(mount.prefix),
                               PrefixBind(mount.prefix, 1, segs, 1).caps)

\* path.replace(/\/$/, '') || '/': one trailing slash is dropped.
normalizePath(p) == RawPath(p.segs, FALSE)

\* ------------------------------------------------------------------------
\* Router objects
\* ------------------------------------------------------------------------
EmptyIndex == [m \in Methods |-> <<>>]

\* sortCalls is history kept with each router (not a field of the class): the
\* calls of sortRoutes() and of sortNested() since the last call that changed
\* the table they sort.
NewRouter ==
    [routes |-> <<>>, routesByMethod |-> EmptyIndex, nested |-> <<>>,
     routesSorted |-> FALSE, nestedSorted |-> FALSE, sortCalls |-> [routes |-> 0, nested |-> 0]]

\* A path or prefix string as the caller wrote it: its non-empty segments,
\* whether it starts with '/' and whether a '/' trails the last segment.
\* Text(t) is the string '/s1/s2...' of the template t.
Text(t) == [segs |-> t, lead |-> TRUE, slash |-> FALSE]

\* prefix.startsWith('/') ? prefix : '/' + prefix, then without the trailing
\* '/' if there is one ('/' and '' both end as '').
normalizePrefix(str) ==
    IF str.segs = <<>> THEN [segs |-> <<>>, lead |-> FALSE, slash |-> FALSE]
    ELSE [segs |-> str.segs, lead |-> TRUE, slash |-> FALSE]

\* The route object: path is the string given (text) and the segments
\* createPathRegex splits it into.
\* isAction is TRUE for the routes action() registers: the function such a
\* route holds is action()'s wrapper around the handler given.
Route(method, path, handler) ==
    [method |-> method, path |-> path.segs, text |-> path, handler |-> handler,
     isAction |-> FALSE, priority |-> Priority(path.segs)]

\* The mount object: prefix is the normalized string (text) and the segments
\* createPrefixRegex splits it into.
Mount(prefix, child) ==
    [prefix |-> prefix.segs, text |-> prefix, router |-> child,
     priority |-> Priority(prefix.segs)]

\* Array.prototype.sort((a, b) => b.priority - a.priority): stable, descending.
RECURSIVE InsertByPriority(_, _, _)
InsertByPriority(sorted, x, i) ==
    IF i > Len(sorted) THEN Append(sorted, x)
    ELSE IF sorted[i].priority < x.priority
        THEN SubSeq(sorted, 1, i - 1) \o <<x>> \o SubSeq(sorted, i, Len(sorted))
    ELSE InsertByPriority(sorted, x, i + 1)

RECURSIVE SortFrom(_, _, _)
SortFrom(seq, i, acc) ==
    IF i > Len(seq) THEN acc ELSE SortFrom(seq, i + 1, InsertByPriority(acc, seq[i], 1))

KeepOrder(seq) == seq

\* A descending sort that puts an entry before the entries of its priority.
RECURSIVE InsertBeforeEqual(_, _, _)
InsertBeforeEqual(sorted, x, i) ==
    IF i > Len(sorted) THEN Append(sorted, x)
    ELSE IF sorted[i].priority <= x.priority
        THEN SubSeq(sorted, 1, i - 1) \o <<x>> \o SubSeq(sorted, i, Len(sorted))
    ELSE InsertBeforeEqual(sorted, x, i + 1)

RECURSIVE SortNewestFirstFrom(_, _, _)
SortNewestFirstFrom(seq, i, acc) ==
    IF i > Len(seq) THEN acc
    ELSE SortNewestFirstFrom(seq, i + 1, InsertBeforeEqual(acc, seq[i], 1))

SortNewestFirst(seq) == SortNewestFirstFrom(seq, 1, <<>>)

SortByPriority(seq) == SortFrom(seq, 1, <<>>)

addHandler(R, method, path, handler) ==
    LET route == Route(method, path, handler)
    IN  [R EXCEPT !.routes = Append(@, route),
                  !.routesByMethod[method] = Append(@, route),
                  !.routesSorted = FALSE, !.sortCalls.routes = 0]

\* action(path, handler): addHandler('POST', path, wrapper, true).
action(R, path, handler) ==
    LET route == [Route("POST", path, handler) EXCEPT !.isAction = TRUE]
    IN  [R EXCEPT !.routes = Append(@, route),
                  !.routesByMethod["POST"] = Append(@, route),
                  !.routesSorted = FALSE, !.sortCalls.routes = 0]

\* USE(path, handler, methods): for (const method of methods)
\* this.addHandler(method, path, handler), with the one function given.
RECURSIVE USE_(_, _, _, _)
USE_(R, path, handler, methods) ==
    IF methods = <<>> THEN R
    ELSE USE_(addHandler(R, Head(methods), path, handler), path, handler, Tail(methods))

use(R, prefix, child) ==
    [R EXCEPT !.nested = Append(@, Mount(normalizePrefix(prefix), child)),
              !.nestedSorted = FALSE, !.sortCalls.nested = 0]

rebuildMethodIndex(R) ==
    [R EXCEPT !.routesByMethod =
        [m \in Methods |-> LET OfMethod(r) == r.method = m IN SelectSeq(R.routes, OfMethod)]]

discardAnyMethod(R, p, method) ==
    LET KeepRoute(r) == r.text # p
        kept == SelectSeq(R.routes, KeepRoute)
    IN  IF Len(kept) # Len(R.routes)
        THEN [rebuildMethodIndex([R EXCEPT !.routes = kept]) EXCEPT
                 !.routesSorted = FALSE, !.sortCalls.routes = 0]
        ELSE R

\* A discard that filters the master list and leaves the per-method lists.
discardKeepingIndex(R, p, method) ==
    LET KeepMount(n) == n.text # p
        KeepRoute(r) == ~(r.text = p /\ (method = None \/ r.method = method))
        R1 == IF method = None
              THEN [R EXCEPT !.nested = SelectSeq(R.nested, KeepMount), !.nestedSorted = FALSE,
                             !.sortCalls.nested = 0]
              ELSE R
    IN  [R1 EXCEPT !.routes = SelectSeq(R1.routes, KeepRoute), !.routesSorted = FALSE,
                   !.sortCalls.routes = 0]

\* discard(path_or_prefix, method?): method = None stands for an omitted method.
discard(R, p, method) ==
    LET KeepMount(n) == n.text # p
        KeepRoute(r) == ~(r.text = p /\ (method = None \/ r.method = method))
        R1 == IF method = None
              THEN [R EXCEPT !.nested = SelectSeq(R.nested, KeepMount), !.nestedSorted = FALSE,
                             !.sortCalls.nested = 0]
              ELSE R
        kept == SelectSeq(R1.routes, KeepRoute)
    IN  IF Len(kept) # Len(R1.routes)
        THEN [rebuildMethodIndex([R1 EXCEPT !.routes = kept]) EXCEPT
                 !.routesSorted = FALSE, !.sortCalls.routes = 0]
        ELSE R1

ClearRoutesOnly(R) ==
    [R EXCEPT !.routes = <<>>, !.routesSorted = TRUE, !.nestedSorted = TRUE,
              !.sortCalls = [routes |-> 0, nested |-> 0]]

\* A reset that leaves the per-method index as it was.
resetKeepingIndex(R) ==
    [R EXCEPT !.routes = <<>>, !.nested = <<>>, !.routesSorted = TRUE, !.nestedSorted = TRUE,
              !.sortCalls = [routes |-> 0, nested |-> 0]]

reset(R) ==
    [routes |-> <<>>, routesByMethod |-> EmptyIndex, nested |-> <<>>,
     routesSorted |-> TRUE, nestedSorted |-> TRUE, sortCalls |-> [routes |-> 0, nested |-> 0]]

sortRoutes(R) ==
    [R EXCEPT !.routesByMethod = [m \in Methods |-> SortByPriority(R.routesByMethod[m])],
              !.routesSorted = TRUE, !.sortCalls.routes = @ + 1]

sortNested(R) ==
    [R EXCEPT !.nested = SortByPriority(R.nested), !.nestedSorted = TRUE,
              !.sortCalls.nested = @ + 1]

\* Outcomes of a dispatch: the handler invoked (with the route id it sees), or
\* the error raised.
\* params are those of the event the handler receives.
\* msg is what the error names, when it names something.
Served(handler, route) ==
    [status |-> 200, err |-> None, handler |-> handler, route |-> route, params |-> NoParams,
     msg |-> None]
Failed(status, err) ==
    [status |-> status, err |-> err, handler |-> None, route |-> <<>>, params |-> NoParams,
     msg |-> None]

\* error(404, {message: `Route not found: ${method} ${path}`})
RouteNotFound(method, segs) ==
    [Failed(404, "RouteNotFound") EXCEPT !.msg = [method |-> method, path |-> RawPath(segs, FALSE)]]

RECURSIVE FirstMatch(_, _, _)
FirstMatch(list, segs, i) ==
    IF i > Len(list) THEN 0
    ELSE IF RouteMatches(list[i].path, segs) THEN i
    ELSE FirstMatch(list, segs, i + 1)

\* The wrapper of action(): event.url.pathname.match(regex) on the pathname as
\* it is (not normalized), then extractParamsFromMatchMeta, or {} without a
\* match.  The regex ends in '/?$': on a pathname with a trailing slash the
\* captures are those of the normalized path, but a catch-all '(.+)' that
\* only optional groups follow takes the slash too (the value ends in '/':
\* one more, empty, segment).
actionParams(t, url) ==
    LET last == CHOOSE i \in 1..Len(t) :
                    t[i].k = "catchall" /\ \A j \in (i + 1)..Len(t) : t[j].k # "catchall"
        takesSlash == /\ url.slash /\ url.segs # <<>> /\ isCatchAll(t)
                      /\ \A j \in (last + 1)..Len(t) : t[j].k = "optional"
        group == Cardinality({j \in 1..last : t[j].k # "static"})
        caps == BindFrom(t, 1, url.segs, 1).caps
    IN  IF RouteMatches(t, url.segs)
        THEN extractParamsFromMatchMeta(paramNames(t), isCatchAll(t),
                 IF takesSlash THEN [caps EXCEPT ![group] = Append(@, "")] ELSE caps)
        ELSE NoParams

\* route.handler(enhancedEvent): the handler registered sees the event's
\* params overridden by the route's; the handler given to action() is called
\* by the wrapper, with those params overridden by the wrapper's own match.
callHandler(route, params, url) ==
    [Served(route.handler, route.path) EXCEPT
        !.params = IF route.isAction THEN Merge(params, actionParams(route.path, url))
                   ELSE params]

handleAnyMethod(R, method, segs, params, url) ==
    LET i == FirstMatch(R.routes, segs, 1)
    IN  IF i = 0 THEN RouteNotFound(method, segs)
        ELSE callHandler(R.routes[i],
                         Merge(params, extractParamsFromMatch(R.routes[i].path, segs)), url)

\* url is event.url.pathname: the service path as createServiceRequest wrote
\* it, or the residual path a parent router wrote.
handleLocalRoutes(R, method, segs, params, url) ==
    LET list == R.routesByMethod[method]
        i == FirstMatch(list, segs, 1)
    IN  IF i = 0 THEN RouteNotFound(method, segs)
        ELSE callHandler(list[i], Merge(params, extractParamsFromMatch(list[i].path, segs)), url)

RECURSIVE FirstMount(_, _, _)
FirstMount(nested, segs, i) ==
    IF i > Len(nested) THEN 0
    ELSE IF matchesPrefix(segs, nested[i]) # -1 THEN i
    ELSE FirstMount(nested, segs, i + 1)

\* A handle that hands the residual path to the router it is in.
RECURSIVE handleAgain(_, _, _, _, _, _)
handleAgain(rs, r, method, p, params, fuel) ==
    LET segs == normalizePath(p).segs
        R1 == IF rs[r].nestedSorted THEN rs[r] ELSE sortNested(rs[r])
        i == FirstMount(R1.nested, segs, 1)
        rs1 == [rs EXCEPT ![r] = R1]
    IN  IF i # 0
        THEN IF fuel = 0
             THEN [rs |-> rs1, out |-> Failed(500, "DepthExceeded")]
             ELSE LET k == matchesPrefix(segs, R1.nested[i])
                      rest == SubSeq(segs, k + 1, Len(segs))
                  IN  handleAgain(rs1, r, method, RawPath(rest, FALSE),
                                  Merge(params, extractPrefixParams(R1.nested[i], segs)), fuel - 1)
        ELSE LET R2 == IF R1.routesSorted THEN R1 ELSE sortRoutes(R1)
             IN  [rs |-> [rs EXCEPT ![r] = R2],
                  out |-> handleLocalRoutes(R2, method, segs, params, p)]

RECURSIVE handleFallingThrough(_, _, _, _, _, _)
handleFallingThrough(rs, r, method, p, params, fuel) ==
    LET segs == normalizePath(p).segs
        R1 == IF rs[r].nestedSorted THEN rs[r] ELSE sortNested(rs[r])
        i == FirstMount(R1.nested, segs, 1)
        R2 == IF R1.routesSorted THEN R1 ELSE sortRoutes(R1)
        here == [rs |-> [rs EXCEPT ![r] = R2],
                 out |-> handleLocalRoutes(R2, method, segs, params, p)]
    IN  IF i # 0 /\ fuel # 0
        THEN LET k == matchesPrefix(segs, R1.nested[i])
                 rest == SubSeq(segs, k + 1, Len(segs))
                 below == handleFallingThrough([rs EXCEPT ![r] = R1], R1.nested[i].router,
                              method, RawPath(rest, FALSE),
                              Merge(params, extractPrefixParams(R1.nested[i], segs)), fuel - 1)
             IN  IF below.out.status = 404 THEN here ELSE below
        ELSE here

\* A handle that sorts the tables it consults on every call, flagged or not.
RECURSIVE handleSortingEveryCall(_, _, _, _, _, _)
handleSortingEveryCall(rs, r, method, p, params, fuel) ==
    LET segs == normalizePath(p).segs
        R1 == sortNested(rs[r])
        i == FirstMount(R1.nested, segs, 1)
        rs1 == [rs EXCEPT ![r] = R1]
    IN  IF i # 0
        THEN IF fuel = 0
             THEN [rs |-> rs1, out |-> Failed(500, "DepthExceeded")]
             ELSE LET k == matchesPrefix(segs, R1.nested[i])
                      rest == SubSeq(segs, k + 1, Len(segs))
                  IN  handleSortingEveryCall(rs1, R1.nested[i].router, method,
                          RawPath(rest, FALSE),
                          Merge(params, extractPrefixParams(R1.nested[i], segs)), fuel - 1)
        ELSE LET R2 == sortRoutes(R1)
             IN  [rs |-> [rs EXCEPT ![r] = R2],
                  out |-> handleLocalRoutes(R2, method, segs, params, p)]

\* handle(): mounts first (sorted on demand), then the local routes (sorted on
\* demand).  The child of the first matching mount gets the residual path and
\* the event's params overridden by the prefix params.  The result holds the
\* routers as the call leaves them and the outcome; fuel bounds the descent
\* through mounts.
RECURSIVE handle(_, _, _, _, _, _)
handle(rs, r, method, p, params, fuel) ==
    LET segs == normalizePath(p).segs
        R1 == IF rs[r].nestedSorted THEN rs[r] ELSE sortNested(rs[r])
        i == FirstMount(R1.nested, segs, 1)
        rs1 == [rs EXCEPT ![r] = R1]
    IN  IF i # 0
        THEN IF fuel = 0
             THEN [rs |-> rs1, out |-> Failed(500, "DepthExceeded")]
             ELSE LET k == matchesPrefix(segs, R1.nested[i])
                      rest == SubSeq(segs, k + 1, Len(segs))
                  IN  handle(rs1, R1.nested[i].router, method, RawPath(rest, FALSE),
                             Merge(params, extractPrefixParams(R1.nested[i], segs)), fuel - 1)
        ELSE LET R2 == IF R1.routesSorted THEN R1 ELSE sortRoutes(R1)
             IN  [rs |-> [rs EXCEPT ![r] = R2],
                  out |-> handleLocalRoutes(R2, method, segs, params, p)]

\* ------------------------------------------------------------------------
\* Services, gateways and calls of the registry specification
\* ------------------------------------------------------------------------
Names == {"a", "b"}
Keys == {"default", "internal"}
GwIds == {"g1", "g2"}
RouterIds == {"r1", "r2"}
DescIds == {"d1", "d2", "d3", "d4", "d5", "d6", "d7"}
Calls == 1..MaxCalls

RouterRoute(r) == [kind |-> "router", router |-> r, fn |-> None, map |-> {}]
FnRoute(h) == [kind |-> "fn", router |-> None, fn |-> h, map |-> {}]
MapRoute(h, ms) == [kind |-> "map", router |-> None, fn |-> h, map |-> ms]
NoRoute == [kind |-> "none", router |-> None, fn |-> None, map |-> {}]

\* The service descriptors the modules of the application export.  d1 and d2
\* are two versions of service "a" (d2 is what a re-evaluated module exports);
\* hot tells whether the module passes import.meta (with .hot) to Load; d7
\* exports no route member.
Desc ==
    [d1 |-> [name |-> "a", load |-> TRUE, cleanup |-> TRUE, hot |-> TRUE,
             route |-> RouterRoute("r1"), dependsOn |-> <<>>],
     d2 |-> [name |-> "a", load |-> FALSE, cleanup |-> FALSE, hot |-> TRUE,
             route |-> RouterRoute("r2"), dependsOn |-> <<>>],
     d3 |-> [name |-> "b", load |-> FALSE, cleanup |-> FALSE, hot |-> FALSE,
             route |-> FnRoute("f3"), dependsOn |-> <<"a">>],
     d4 |-> [name |-> "b", load |-> FALSE, cleanup |-> FALSE, hot |-> FALSE,
             route |-> MapRoute("m4", {"GET"}), dependsOn |-> <<>>],
     d5 |-> [name |-> "b", load |-> TRUE, cleanup |-> FALSE, hot |-> FALSE,
             route |-> FnRoute("f5"), dependsOn |-> <<"b">>],
     d6 |-> [name |-> "a", load |-> TRUE, cleanup |-> FALSE, hot |-> FALSE,
             route |-> FnRoute("f6"), dependsOn |-> <<"b">>],
     d7 |-> [name |-> "b", load |-> FALSE, cleanup |-> FALSE, hot |-> FALSE,
             route |-> NoRoute, dependsOn |-> <<>>]]

VARIABLES
    routers,          \* RouterIds -> router object
    services,         \* ServiceManager.services: name -> committed descriptor
    loadingPromises,  \* ServiceManager.loadingPromises: name -> call owning the promise (0: absent)
    accessLists,      \* ServiceManager.accessLists: key -> set of names
    lastAccess,       \* history: the last observed access(): gateway, key, names, names removed
    gateways,         \* gateway objects made by Base(): id -> key
    calls,            \* the Load / Reload calls, each at one of its awaits
    hmr,              \* descriptors whose module registered hot.dispose / hot.accept
    hookCalls,        \* history: invocations of each descriptor's load hook
    cleanupCalls,     \* history: invocations of each descriptor's cleanup hook
    retired,          \* history: handlers a completed Reload removed by reset()
    reloadDone,       \* history: names a completed Reload unregistered
    ev                \* the request dispatched by the last step, if it was one

vars == <<routers, services, loadingPromises, accessLists, lastAccess, gateways, calls, hmr,
          hookCalls, cleanupCalls, retired, reloadDone, ev>>

NoEv == [kind |-> "none", gw |-> None, name |-> None, svc |-> None, method |-> None,
         params |-> NoParams,
         path |-> <<>>, out |-> Failed(0, None)]

\* A request that has selected its service and awaits the selector's result
\* stays in flight across the steps of other operations.
InFlight == IF ev.kind = "selected" THEN ev ELSE NoEv

NoAccess == [by |-> None, key |-> None, names |-> {}, dropped |-> {}]

IdleCall ==
    [op |-> None, pc |-> "idle", d |-> None, name |-> None, hot |-> FALSE, next |-> None,
     res |-> None, hook |-> None, depErr |-> None, stack |-> {},
     early |-> FALSE, seen |-> None, committed |-> FALSE, raced |-> FALSE,
     afterReload |-> FALSE, cleanupFailed |-> FALSE]

Active(c) == calls[c].op # None /\ calls[c].pc # "done"
ActiveLoad(c, n) == calls[c].op = "load" /\ calls[c].pc # "done" /\ calls[c].name = n

\* Calls are started in the order of their slots.
FreeSlot(c) == calls[c].op = None /\ \A b \in Calls : b < c => calls[b].op # None

RouterHandlers(R) == {R.routes[i].handler : i \in 1..Len(R.routes)}

\* ------------------------------------------------------------------------
\* ServiceManager.Load
\* ------------------------------------------------------------------------
\* Load(service, module) up to `await service`.
StartLoad(c, d) ==
    LET n == Desc[d].name
        others == {b \in Calls \ {c} : ActiveLoad(b, n)}
    IN  [b \in Calls |->
            IF b = c
            THEN [IdleCall EXCEPT !.op = "load", !.pc = "awaitSvc", !.d = d, !.name = n,
                                  !.hot = Desc[d].hot, !.raced = others # {},
                                  !.afterReload = n \in reloadDone /\ services[n] = None]
            ELSE IF b \in others THEN [calls[b] EXCEPT !.raced = TRUE]
            ELSE calls[b]]

LoadCall(c, d) ==
    /\ FreeSlot(c)
    /\ calls' = StartLoad(c, d)
    /\ ev' = InFlight
    /\ UNCHANGED <<routers, services, loadingPromises, accessLists, lastAccess, gateways, hmr,
                   hookCalls, cleanupCalls, retired, reloadDone>>

\* "Load this service": the hook is called when the descriptor has one and no
\* promise is registered under the name; otherwise the service is committed
\* at once.  Promise.resolve(svc.load()) calls the hook first: a hook that
\* returns (a promise or not) gets its promise registered and awaited; a hook
\* that throws before returning ends the Load with the hook's own error,
\* with no promise registered and the .catch/.finally never attached.
SkipsHook(d) == ~Desc[d].load \/ loadingPromises[Desc[d].name] # 0

LoadThisService(c) ==
    LET d == calls[c].d
        n == calls[c].name
    IN  IF SkipsHook(d)
        THEN /\ services' = [services EXCEPT ![n] = d]
             /\ calls' = [calls EXCEPT ![c].pc = "awaitRec", ![c].committed = TRUE,
                                       ![c].stack = {n}]
             /\ UNCHANGED <<loadingPromises, hookCalls>>
        ELSE \/ /\ hookCalls' = [hookCalls EXCEPT ![d] = @ + 1]
                /\ loadingPromises' = [loadingPromises EXCEPT ![n] = c]
                /\ calls' = [calls EXCEPT ![c].pc = "awaitHook", ![c].stack = {n}]
                /\ UNCHANGED services
             \/ /\ hookCalls' = [hookCalls EXCEPT ![d] = @ + 1]
                /\ calls' = [calls EXCEPT ![c].pc = "done", ![c].res = "HookError",
                                          ![c].hook = "threw", ![c].stack = {n}]
                /\ UNCHANGED <<services, loadingPromises>>

\* loadServiceRecursively(svc) on entry: it returns when the name is committed
\* and throws when the name is on the loading stack of this Load.
RecursiveEntry(n, stack) ==
    IF services[n] # None THEN "return"
    ELSE IF n \in stack THEN "CircularDependency"
    ELSE "load"

AssumeCommitted(depName, stack) == "return"

\* The callback of dependsOn.map for one name: the committed descriptor of
\* that name is looked up and handed to loadServiceRecursively.
DependencyOutcome(depName, stack) ==
    IF services[depName] = None THEN "DependencyNotFound"
    ELSE RecursiveEntry(depName, stack)

\* Promise.all over the callbacks: the first rejection, None when all fulfil.
RECURSIVE FirstDepFailure(_, _, _)
FirstDepFailure(deps, stack, i) ==
    IF i > Len(deps) THEN None
    ELSE IF DependencyOutcome(deps[i], stack) # "return" THEN DependencyOutcome(deps[i], stack)
    ELSE FirstDepFailure(deps, stack, i + 1)

\* After `await service`: the idempotence check, then loadServiceRecursively
\* up to its first await (Promise.all over dependsOn, or the load hook).
LoadResume(c) ==
    /\ calls[c].op = "load" /\ calls[c].pc = "awaitSvc"
    /\ LET d == calls[c].d
           n == calls[c].name
       IN  IF services[n] # None
           THEN /\ calls' = [calls EXCEPT ![c].pc = "done", ![c].res = "ok",
                                          ![c].early = TRUE, ![c].seen = services[n]]
                /\ UNCHANGED <<services, loadingPromises, hookCalls>>
           ELSE IF Len(Desc[d].dependsOn) > 0
           THEN /\ calls' = [calls EXCEPT ![c].pc = "awaitDeps", ![c].stack = {n},
                                          ![c].depErr =
                                              FirstDepFailure(Desc[d].dependsOn, {n}, 1)]
                /\ UNCHANGED <<services, loadingPromises, hookCalls>>
           ELSE LoadThisService(c)
    /\ ev' = InFlight
    /\ UNCHANGED <<routers, accessLists, lastAccess, gateways, hmr, cleanupCalls, retired, reloadDone>>

\* After `await Promise.all(...)` over the dependencies.
LoadAfterDeps(c) ==
    /\ calls[c].op = "load" /\ calls[c].pc = "awaitDeps"
    /\ IF calls[c].depErr # None
       THEN /\ calls' = [calls EXCEPT ![c].pc = "done", ![c].res = calls[c].depErr]
            /\ UNCHANGED <<services, loadingPromises, hookCalls>>
       ELSE LoadThisService(c)
    /\ ev' = InFlight
    /\ UNCHANGED <<routers, accessLists, lastAccess, gateways, hmr, cleanupCalls, retired, reloadDone>>

\* The load hook's promise settles and the .finally callback runs.
HookSettles(c, ok) ==
    /\ calls[c].op = "load" /\ calls[c].pc = "awaitHook"
    /\ loadingPromises' = [loadingPromises EXCEPT ![calls[c].name] = 0]
    /\ calls' = [calls EXCEPT ![c].pc = "afterFinally",
                              ![c].hook = IF ok THEN "ok" ELSE "failed",
                              ![c].stack = @ \ {calls[c].name}]
    /\ ev' = InFlight
    /\ UNCHANGED <<routers, services, accessLists, lastAccess, gateways, hmr, hookCalls, cleanupCalls,
                   retired, reloadDone>>

\* After `await loadPromise`: commit, or fail with "failed to load".
LoadAfterHook(c) ==
    /\ calls[c].op = "load" /\ calls[c].pc = "afterFinally"
    /\ IF calls[c].hook = "ok"
       THEN /\ services' = [services EXCEPT ![calls[c].name] = calls[c].d]
            /\ calls' = [calls EXCEPT ![c].pc = "awaitRec", ![c].committed = TRUE]
       ELSE /\ calls' = [calls EXCEPT ![c].pc = "done", ![c].res = "LoadFailed"]
            /\ UNCHANGED services
    /\ ev' = InFlight
    /\ UNCHANGED <<routers, loadingPromises, accessLists, lastAccess, gateways, hmr, hookCalls,
                   cleanupCalls, retired, reloadDone>>

\* After `await loadServiceRecursively(_service)`: the HMR wiring and the return.
LoadReturn(c) ==
    /\ calls[c].op = "load" /\ calls[c].pc = "awaitRec"
    /\ calls' = [calls EXCEPT ![c].pc = "done", ![c].res = "ok"]
    /\ hmr' = IF calls[c].hot THEN hmr \cup {calls[c].d} ELSE hmr
    /\ ev' = InFlight
    /\ UNCHANGED <<routers, services, loadingPromises, accessLists, lastAccess, gateways, hookCalls,
                   cleanupCalls, retired, reloadDone>>

\* ------------------------------------------------------------------------
\* ServiceManager.Reload
\* ------------------------------------------------------------------------
KeepRouterOf(d, rs) == rs

ResetRouterOf(d, rs) ==
    IF Desc[d].route.kind = "router"
    THEN [rs EXCEPT ![Desc[d].route.router] = reset(@)]
    ELSE rs

RetiredBy(d) ==
    IF Desc[d].route.kind = "router"
    THEN RouterHandlers(routers[Desc[d].route.router])
    ELSE {}

\* A Reload that a failing cleanup hook aborts: the error is raised and the
\* router and the tables are left as they were.
UnregisterUnlessFailed(c, call, d, n, failed) ==
    IF failed
    THEN /\ calls' = [calls EXCEPT ![c] = [call EXCEPT !.pc = "done", !.res = "error", !.d = d,
                                                      !.cleanupFailed = TRUE]]
         /\ UNCHANGED <<routers, services, loadingPromises, retired, reloadDone>>
    ELSE /\ routers' = [routers EXCEPT ![Desc[d].route.router] =
                           [routes |-> <<>>, routesByMethod |-> EmptyIndex, nested |-> <<>>,
                            routesSorted |-> TRUE, nestedSorted |-> TRUE,
                            sortCalls |-> [routes |-> 0, nested |-> 0]]]
         /\ services' = [services EXCEPT ![n] = None]
         /\ loadingPromises' = [loadingPromises EXCEPT ![n] = 0]
         /\ retired' = retired \cup {"h1"}
         /\ reloadDone' = reloadDone \cup {n}
         /\ calls' = [calls EXCEPT ![c] = [call EXCEPT !.pc = "done", !.res = "ok", !.d = d]]

\* The part of Reload after the cleanup hook: reset the descriptor's router,
\* then delete the name from both tables.
Unregister(c, call, d, n, failed) ==
    /\ routers' = ResetRouterOf(d, routers)
    /\ services' = [services EXCEPT ![n] = None]
    /\ loadingPromises' = [loadingPromises EXCEPT ![n] = 0]
    /\ retired' = retired \cup RetiredBy(d)
    /\ reloadDone' = reloadDone \cup {n}
    /\ calls' = [calls EXCEPT ![c] = [call EXCEPT !.pc = "done", !.res = "ok", !.d = d,
                                                 !.cleanupFailed = failed]]

\* Reload(name) up to its first await (the cleanup hook), or to its end when
\* the service has no cleanup hook or is not committed.  `next` is the
\* descriptor an accept callback loads afterwards (None for a plain Reload).
StartReload(c, n, next) ==
    LET d == services[n]
        call == [IdleCall EXCEPT !.op = "reload", !.name = n, !.next = next, !.hot = next # None]
    IN  IF d = None
        THEN /\ calls' = [calls EXCEPT ![c] = [call EXCEPT !.pc = "done", !.res = "noop"]]
             /\ UNCHANGED <<routers, services, loadingPromises, cleanupCalls, retired, reloadDone>>
        ELSE IF Desc[d].cleanup
        THEN /\ calls' = [calls EXCEPT ![c] = [call EXCEPT !.pc = "awaitCleanup", !.d = d]]
             /\ cleanupCalls' = [cleanupCalls EXCEPT ![d] = @ + 1]
             /\ UNCHANGED <<routers, services, loadingPromises, retired, reloadDone>>
        ELSE /\ Unregister(c, call, d, n, FALSE)
             /\ UNCHANGED cleanupCalls

ReloadCall(c, n) ==
    /\ FreeSlot(c)
    /\ StartReload(c, n, None)
    /\ ev' = InFlight
    /\ UNCHANGED <<accessLists, lastAccess, gateways, hmr, hookCalls>>

\* The cleanup hook settles (a failure is logged) and Reload runs to its end.
ReloadFinish(c, ok) ==
    /\ calls[c].op = "reload" /\ calls[c].pc = "awaitCleanup"
    /\ Unregister(c, calls[c], calls[c].d, calls[c].name, ~ok)
    /\ ev' = InFlight
    /\ UNCHANGED <<accessLists, lastAccess, gateways, hmr, hookCalls, cleanupCalls>>

\* ------------------------------------------------------------------------
\* The HMR callbacks Load registers on module.hot
\* ------------------------------------------------------------------------
\* hot.dispose callback: Reload(data.serviceName).
HotDispose(c, d) ==
    /\ d \in hmr
    /\ FreeSlot(c)
    /\ StartReload(c, Desc[d].name, None)
    /\ ev' = InFlight
    /\ UNCHANGED <<accessLists, lastAccess, gateways, hmr, hookCalls>>

\* hot.accept callback: Reload(_service.name), then Load(newModule.default, module).
HotAccept(c, d, next) ==
    /\ d \in hmr
    /\ Desc[next].name = Desc[d].name
    /\ FreeSlot(c)
    /\ StartReload(c, Desc[d].name, next)
    /\ ev' = InFlight
    /\ UNCHANGED <<accessLists, lastAccess, gateways, hmr, hookCalls>>

\* The accept callback after `await Reload(...)`: Load(next, module) up to
\* `await service`.  module is the import.meta of the module that registered
\* the callback: it has .hot, whatever module the new descriptor comes from.
AcceptLoad(c) ==
    /\ calls[c].op = "reload" /\ calls[c].pc = "done" /\ calls[c].next # None
    /\ calls' = [StartLoad(c, calls[c].next) EXCEPT ![c].hot = TRUE]
    /\ ev' = InFlight
    /\ UNCHANGED <<routers, services, loadingPromises, accessLists, lastAccess, gateways, hmr,
                   hookCalls, cleanupCalls, retired, reloadDone>>

\* ------------------------------------------------------------------------
\* ServiceManager.Base: gateways
\* ------------------------------------------------------------------------
FreshAccessList(lists, key) == [lists EXCEPT ![key] = {}]

\* getAccessList(key): the set stored under the key, created empty when the
\* key has none (the table of the model holds the empty set for such a key).
getAccessList(lists, key) == lists

\* Base(selector, {accessKey}): the gateway captures the singleton's set for
\* its key (getAccessList creates it empty when absent).
Base(g, key) ==
    /\ gateways[g] = None
    /\ g = "g2" => gateways["g1"] # None
    /\ gateways' = [gateways EXCEPT ![g] = key]
    /\ accessLists' = getAccessList(accessLists, key)
    /\ ev' = InFlight
    /\ UNCHANGED <<routers, services, loadingPromises, lastAccess, calls, hmr,
                   hookCalls, cleanupCalls, retired, reloadDone>>

AddToList(lists, key, S) == [lists EXCEPT ![key] = @ \cup S]

ClearAllThenAdd(lists, key, S) == [k \in Keys |-> IF k = key THEN S ELSE {}]

\* access(...keys): accessList.clear(), then add each name.
ReplaceList(lists, key, S) == [lists EXCEPT ![key] = S]

access(g, S) ==
    /\ gateways[g] # None
    /\ accessLists' = ReplaceList(accessLists, gateways[g], S)
    /\ ev' = InFlight
    /\ UNCHANGED <<routers, services, loadingPromises, gateways, calls, hmr,
                   hookCalls, cleanupCalls, retired, reloadDone>>

Access(g, S) == access(g, S) /\ UNCHANGED lastAccess

\* The same call, with the history of the call kept for the properties of
\* the allow-list (the gateway, its key, the names given, the names removed).
AccessObserved(g, S) ==
    /\ access(g, S)
    /\ lastAccess' = [by |-> g, key |-> gateways[g], names |-> S,
                      dropped |-> accessLists[gateways[g]] \ S]

\* ServiceSelector.params: the committed service of that name, or 404.
\* Then the allow-list check, the route-tree check and the delegation.
AllowedAnywhere(key, n) == \E k \in Keys : n \in accessLists[k]

Allowed(key, n) == n \in accessLists[key]

\* event.params of a request that reached the gateway: the gateway's route
\* binds the name the selector reads.  createServiceRequest spreads the event,
\* so the service receives these params.
SelectorParams(n) == [k \in {"service_name"} |-> <<n>>]

\* event.route.id of a request that reached the gateway: the id of the
\* gateway's own route, which binds the service name and ends in the
\* catch-all createServiceRequest requires.
GatewayRouteId ==
    <<St("api"), St("v1"), St("services"), Pa("service_name"), Ca("catch")>>

\* The handler of a function or method-map route tree, called with the
\* service request: {...event} with url and route.service rewritten, the
\* route id and the params being the gateway's.
ServedByFunction(d) ==
    [Served(Desc[d].route.fn, GatewayRouteId) EXCEPT !.params = SelectorParams(Desc[d].name)]

\* A dispatch that looks at the route tree before the allow-list.
DispatchRouteFirst(key, d, method, p) ==
    IF Desc[d].route.kind = "none"
    THEN [rs |-> routers, out |-> Failed(503, "ServiceUnavailable")]
    ELSE IF Desc[d].route.kind = "map" /\ method \notin Desc[d].route.map
    THEN [rs |-> routers, out |-> Failed(405, "MethodNotAllowed")]
    ELSE IF Desc[d].name \notin accessLists[key]
    THEN [rs |-> routers, out |-> Failed(403, "Forbidden")]
    ELSE [rs |-> routers, out |-> ServedByFunction(d)]

Dispatch(key, d, method, p) ==
    LET n == Desc[d].name
    IN  IF ~Allowed(key, n)
        THEN [rs |-> routers, out |-> Failed(403, "Forbidden")]
        ELSE IF Desc[d].route.kind = "none"
        THEN [rs |-> routers, out |-> Failed(503, "ServiceUnavailable")]
        ELSE IF Desc[d].route.kind = "router"
        THEN handle(routers, Desc[d].route.router, method, p, SelectorParams(n), MaxDepth)
        ELSE IF Desc[d].route.kind = "fn"
        THEN [rs |-> routers, out |-> ServedByFunction(d)]
        ELSE IF method \in Desc[d].route.map
        THEN [rs |-> routers, out |-> ServedByFunction(d)]
        ELSE [rs |-> routers, out |-> Failed(405, "MethodNotAllowed")]

\* endpoint[method](event) up to `await serviceSelector(event)`: the selector
\* resolves the committed service of that name or throws 404.
Request(g, n, method, segs) ==
    /\ gateways[g] # None
    /\ ev.kind # "selected"
    /\ ev' = [kind |-> IF services[n] = None THEN "request" ELSE "selected",
              gw |-> g, name |-> n, svc |-> services[n], method |-> method,
              params |-> SelectorParams(n), path |-> segs,
              out |-> IF services[n] = None THEN Failed(404, "ServiceNotFound")
                      ELSE Failed(0, None)]
    /\ UNCHANGED <<routers, services, loadingPromises, accessLists, lastAccess, gateways, calls, hmr,
                   hookCalls, cleanupCalls, retired, reloadDone>>

\* After `await serviceSelector(event)`: the allow-list check, the route-tree
\* check and the delegation to the selected service's route tree.
Deliver ==
    /\ ev.kind = "selected"
    /\ LET res == Dispatch(gateways[ev.gw], ev.svc, ev.method, RawPath(ev.path, FALSE))
       IN  /\ routers' = res.rs
           /\ ev' = [ev EXCEPT !.kind = "request", !.out = res.out]
    /\ UNCHANGED <<services, loadingPromises, accessLists, lastAccess, gateways, calls, hmr,
                   hookCalls, cleanupCalls, retired, reloadDone>>

\* ------------------------------------------------------------------------
\* The registry specification
\* ------------------------------------------------------------------------
\* The modules have built their routers; nothing is loaded, no gateway exists.
Init ==
    /\ routers = [r \in RouterIds |->
                    IF r = "r1" THEN addHandler(NewRouter, "GET", Text(<<St("v")>>), "h1")
                    ELSE addHandler(NewRouter, "GET", Text(<<St("v")>>), "h2")]
    /\ services = [n \in Names |-> None]
    /\ loadingPromises = [n \in Names |-> 0]
    /\ accessLists = [k \in Keys |-> {}]
    /\ lastAccess = NoAccess
    /\ gateways = [g \in GwIds |-> None]
    /\ calls = [c \in Calls |-> IdleCall]
    /\ hmr = {}
    /\ hookCalls = [d \in DescIds |-> 0]
    /\ cleanupCalls = [d \in DescIds |-> 0]
    /\ retired = {}
    /\ reloadDone = {}
    /\ ev = NoEv

\* Descriptors and service-relative request paths of this specification.
RegDescs == {"d1", "d2", "d3"}
RegPaths == {<<"v">>}

Next ==
    \/ \E c \in Calls, d \in RegDescs : LoadCall(c, d)
    \/ \E c \in Calls : LoadResume(c)
    \/ \E c \in Calls : LoadAfterDeps(c)
    \/ \E c \in Calls, ok \in BOOLEAN : HookSettles(c, ok)
    \/ \E c \in Calls : LoadAfterHook(c)
    \/ \E c \in Calls : LoadReturn(c)
    \/ \E c \in Calls, n \in Names : ReloadCall(c, n)
    \/ \E c \in Calls, ok \in BOOLEAN : ReloadFinish(c, ok)
    \/ \E c \in Calls, d \in RegDescs : HotDispose(c, d)
    \/ \E c \in Calls, d \in RegDescs, next \in RegDescs : HotAccept(c, d, next)
    \/ \E c \in Calls : AcceptLoad(c)
    \/ Base("g1", "default")
    \/ \E S \in SUBSET Names : Access("g1", S)
    \/ \E n \in Names, p \in RegPaths : Request("g1", n, "GET", p)
    \/ Deliver

Spec == Init /\ [][Next]_vars

\* ------------------------------------------------------------------------
\* The gateway specification: every gateway, key, allow-list and request,
\* over services without hooks
\* ------------------------------------------------------------------------
GwCalls == 1..MaxGwCalls
GwDescs == {"d2", "d4"}

NextGw ==
    \/ \E c \in GwCalls, d \in GwDescs : LoadCall(c, d)
    \/ \E c \in GwCalls : LoadResume(c)
    \/ \E c \in GwCalls : LoadReturn(c)
    \/ \E c \in GwCalls, n \in Names : ReloadCall(c, n)
    \/ Base("g1", "default")
    \/ \E key \in Keys : Base("g2", key)
    \/ \E g \in GwIds, S \in SUBSET Names : Access(g, S)
    \/ \E g \in GwIds, n \in Names, m \in CalledMethods, p \in RegPaths : Request(g, n, m, p)
    \/ Deliver

SpecGw == Init /\ [][NextGw]_vars

\* ------------------------------------------------------------------------
\* The allow-list specification: gateways created before and after access()
\* calls, with the last call kept as history
\* ------------------------------------------------------------------------
\* Loads run one at a time here: the services have no hooks.
NextAccess ==
    \/ \E d \in GwDescs : LoadCall(1, d)
    \/ LoadResume(1)
    \/ LoadReturn(1)
    \/ \E key \in Keys : Base("g1", key)
    \/ \E key \in Keys : Base("g2", key)
    \/ \E g \in GwIds, S \in SUBSET Names : AccessObserved(g, S)
    \/ \E g \in GwIds, n \in Names, p \in RegPaths : Request(g, n, "GET", p)
    \/ Deliver

SpecAccess == Init /\ [][NextAccess]_vars

\* ------------------------------------------------------------------------
\* The router specification: registrations, mounts, discard, reset and
\* handle() on router objects, outside any service
\* ------------------------------------------------------------------------
Templates ==
    {<<St("a")>>, <<Pa("x")>>, <<Op("x")>>, <<Ca("x")>>, <<St("a"), St("b")>>}

ChildTemplates == {<<St("b")>>}

ActionTemplates == {<<Pa("x")>>, <<Ca("x")>>}

Prefixes == {<<St("a")>>, <<Pa("x")>>}

HandlePaths ==
    {RawPath(<<>>, FALSE), RawPath(<<"a">>, FALSE), RawPath(<<"a">>, TRUE),
     RawPath(<<"b">>, FALSE), RawPath(<<"a", "b">>, FALSE)}

\* The functions given to the registrations: any function is accepted, one
\* that a route already holds included.
Handlers == {"h1", "h2"}

\* The method lists given to USE(): the default and an explicit one.
MethodLists == {AllMethods, <<"GET", "POST">>}

TotalRoutes == Len(routers["r1"].routes) + Len(routers["r2"].routes)

RouterFrame ==
    UNCHANGED <<services, loadingPromises, accessLists, lastAccess, gateways, calls, hmr,
                hookCalls, cleanupCalls, retired, reloadDone>>

\* router.GET(path, handler) and the other method helpers.
AddHandler(r, method, t, h) ==
    /\ TotalRoutes < MaxRoutes
    /\ routers' = [routers EXCEPT ![r] = addHandler(@, method, t, h)]
    /\ ev' = InFlight
    /\ RouterFrame

\* router.action(path, handler).
Action(r, t, h) ==
    /\ TotalRoutes < MaxRoutes
    /\ routers' = [routers EXCEPT ![r] = action(@, t, h)]
    /\ ev' = InFlight
    /\ RouterFrame

\* router.USE(path, handler, methods): one call, one route per method.
UseMethods(r, t, h, methods) ==
    /\ TotalRoutes < MaxRoutes
    /\ routers' = [routers EXCEPT ![r] = USE_(@, t, h, methods)]
    /\ ev' = InFlight
    /\ RouterFrame

\* router.use(prefix, child).
Use(r, prefix, child) ==
    /\ Len(routers[r].nested) < MaxMounts
    /\ routers' = [routers EXCEPT ![r] = use(@, prefix, child)]
    /\ ev' = InFlight
    /\ RouterFrame

\* router.discard(path_or_prefix, method?).
Discard(r, t, method) ==
    /\ routers' = [routers EXCEPT ![r] = discard(@, t, method)]
    /\ ev' = InFlight
    /\ RouterFrame

\* The same call, kept as the last event, together with the router as it was,
\* for the properties of discard.
DiscardObserved(r, p, method) ==
    /\ routers' = [routers EXCEPT ![r] = discard(@, p, method)]
    /\ ev' = [kind |-> "discard", gw |-> r, name |-> None, svc |-> None, method |-> method,
              params |-> NoParams, path |-> p, out |-> Failed(0, None),
              before |-> routers[r]]
    /\ RouterFrame

\* router.reset().
Reset(r) ==
    /\ routers' = [routers EXCEPT ![r] = reset(@)]
    /\ ev' = InFlight
    /\ RouterFrame

\* The same call, kept as the last event together with the tables it cleared.
ResetObserved(r) ==
    /\ routers' = [routers EXCEPT ![r] = reset(@)]
    /\ ev' = [kind |-> "reset", gw |-> r, name |-> None, svc |-> None, method |-> None,
              params |-> NoParams, path |-> <<>>, out |-> Failed(0, None),
              before |-> routers[r]]
    /\ RouterFrame

\* router.handle(event) with event.route.service = p, event.url.pathname = p
\* and event.params = params.
HandleWith(r, method, p, params) ==
    /\ LET res == handle(routers, r, method, p, params, MaxDepth)
       IN  /\ routers' = res.rs
           /\ ev' = [kind |-> "handle", gw |-> r, name |-> None, svc |-> None,
                     method |-> method, params |-> params, path |-> p.segs, out |-> res.out]
    /\ RouterFrame

Handle(r, method, p) == HandleWith(r, method, p, NoParams)

\* The same call, kept as the last event together with the routers as the
\* call found them, for the properties of sorting.
HandleObserved(r, method, p) ==
    /\ LET res == handle(routers, r, method, p, NoParams, MaxDepth)
       IN  /\ routers' = res.rs
           /\ ev' = [kind |-> "handle", gw |-> r, name |-> None, svc |-> None,
                     method |-> method, params |-> NoParams, path |-> p.segs, out |-> res.out,
                     before |-> routers]
    /\ RouterFrame

InitRouter ==
    /\ routers = [r \in RouterIds |-> NewRouter]
    /\ services = [n \in Names |-> None]
    /\ loadingPromises = [n \in Names |-> 0]
    /\ accessLists = [k \in Keys |-> {}]
    /\ lastAccess = NoAccess
    /\ gateways = [g \in GwIds |-> None]
    /\ calls = [c \in Calls |-> IdleCall]
    /\ hmr = {}
    /\ hookCalls = [d \in DescIds |-> 0]
    /\ cleanupCalls = [d \in DescIds |-> 0]
    /\ retired = {}
    /\ reloadDone = {}
    /\ ev = NoEv

NextRouter ==
    \/ \E t \in Templates, h \in Handlers : AddHandler("r1", "GET", Text(t), h)
    \/ \E h \in Handlers : AddHandler("r1", "POST", Text(<<St("a")>>), h)
    \/ \E t \in ActionTemplates, h \in Handlers : Action("r1", Text(t), h)
    \/ \E h \in Handlers, ms \in MethodLists : UseMethods("r1", Text(<<St("a")>>), h, ms)
    \/ \E t \in ChildTemplates, h \in Handlers : AddHandler("r2", "GET", Text(t), h)
    \/ \E t \in Prefixes : Use("r1", Text(t), "r2")
    \/ \E t \in Prefixes, m \in {"GET", None} : Discard("r1", Text(t), m)
    \/ \E r \in RouterIds : Reset(r)
    \/ \E p \in HandlePaths : Handle("r1", "GET", p)
    \/ \E slash \in BOOLEAN : Handle("r1", "POST", RawPath(<<"a">>, slash))

SpecRouter == InitRouter /\ [][NextRouter]_vars

\* ------------------------------------------------------------------------
\* The discard specification: routes and mounts registered under strings
\* written with and without the leading and the trailing slash
\* ------------------------------------------------------------------------
DiscardTexts ==
    {Text(<<St("a")>>),
     [segs |-> <<St("a")>>, lead |-> FALSE, slash |-> FALSE],
     [segs |-> <<St("a")>>, lead |-> TRUE, slash |-> TRUE]}

RouteTexts == {Text(<<St("a")>>), Text(<<St("b")>>)}

DiscardPaths == {<<"a">>}

NextDiscard ==
    \/ \E m \in CalledMethods, p \in RouteTexts, h \in Handlers : AddHandler("r1", m, p, h)
    \/ \E p \in DiscardTexts : Use("r1", p, "r2")
    \/ \E p \in DiscardTexts, m \in CalledMethods \cup {None} : DiscardObserved("r1", p, m)
    \/ \E m \in CalledMethods, p \in DiscardPaths : Handle("r1", m, RawPath(p, FALSE))

SpecDiscard == InitRouter /\ [][NextDiscard]_vars

\* ------------------------------------------------------------------------
\* The priority specification: routes of one method over templates of the
\* three classes (static, params without catch-all, catch-all)
\* ------------------------------------------------------------------------
PriorityTemplates ==
    {<<St("a")>>, <<St("a"), St("b")>>,
     <<Pa("x")>>, <<Pa("x"), Pa("y")>>, <<Op("x"), Op("y")>>,
     <<Pa("p1"), Pa("p2"), Pa("p3"), Pa("p4"), Pa("p5"), Pa("p6")>>,
     <<Ca("z")>>, <<St("a"), Ca("z")>>,
     <<St("a"), St("a"), St("a"), St("a"), St("a"), Ca("z")>>}

PriorityPaths ==
    {<<"a">>, <<"a", "b">>, <<"a", "a", "a", "a", "a", "a">>}

NextPriority ==
    \/ \E t \in PriorityTemplates, h \in Handlers : AddHandler("r1", "GET", Text(t), h)
    \/ \E p \in PriorityPaths : Handle("r1", "GET", RawPath(p, FALSE))

SpecPriority == InitRouter /\ [][NextPriority]_vars

\* ------------------------------------------------------------------------
\* The nested-router specification: a parent with up to MaxNested mounts over
\* two children, one of which may mount the other, and requests with params
\* ------------------------------------------------------------------------
NestedRouterIds == {"r1", "r2", "r3"}

NestedPrefixes == {<<St("users")>>, <<Pa("id")>>, <<St("users"), Pa("id")>>}

NestedMounts == [prefix : NestedPrefixes, router : {"r2", "r3"}]

NestedPaths ==
    {<<>>, <<"users">>, <<"users", "42">>, <<"users", "profile">>,
     <<"users", "42", "profile">>}

EventParams == {NoParams, [n \in {"id", "lang"} |-> IF n = "id" THEN <<"0">> ELSE <<"en">>]}

\* parent.use(prefix, child) for each mount in turn.
RECURSIVE UseAll(_, _)
UseAll(R, ms) ==
    IF ms = <<>> THEN R ELSE UseAll(use(R, Text(Head(ms).prefix), Head(ms).router), Tail(ms))

InitNested ==
    /\ \E n \in 0..MaxNested : \E ms \in [1..n -> NestedMounts] :
       \E local, deeper \in BOOLEAN :
          routers = [r \in NestedRouterIds |->
            IF r = "r1"
            THEN UseAll(IF local THEN addHandler(NewRouter, "GET", Text(<<Ca("rest")>>), "h1")
                        ELSE NewRouter, ms)
            ELSE IF r = "r2"
            THEN LET R == addHandler(addHandler(NewRouter, "GET", Text(<<St("profile")>>), "h2"),
                                     "GET", Text(<<>>), "h3")
                 IN  IF deeper THEN use(R, Text(<<Pa("id")>>), "r3") ELSE R
            ELSE addHandler(addHandler(NewRouter, "GET", Text(<<St("profile")>>), "h4"),
                            "GET", Text(<<Pa("id")>>), "h5")]
    /\ services = [n \in Names |-> None]
    /\ loadingPromises = [n \in Names |-> 0]
    /\ accessLists = [k \in Keys |-> {}]
    /\ lastAccess = NoAccess
    /\ gateways = [g \in GwIds |-> None]
    /\ calls = [c \in Calls |-> IdleCall]
    /\ hmr = {}
    /\ hookCalls = [d \in DescIds |-> 0]
    /\ cleanupCalls = [d \in DescIds |-> 0]
    /\ retired = {}
    /\ reloadDone = {}
    /\ ev = NoEv

NextNested ==
    \E p \in NestedPaths, params \in EventParams :
        HandleWith("r1", "GET", RawPath(p, FALSE), params)

SpecNested == InitNested /\ [][NextNested]_vars

\* ------------------------------------------------------------------------
\* The regular expressions of createPathRegex and createPrefixRegex, on
\* strings taken as sequences of characters
\* ------------------------------------------------------------------------
\* The characters of a segment.
Spell(v) == IF v = "ab" THEN <<"a", "b">> ELSE <<v>>

RECURSIVE Render(_)
Render(segs) ==
    IF segs = <<>> THEN <<>> ELSE <<"/">> \o Spell(Head(segs)) \o Render(Tail(segs))

\* The string of a request path: '/' for no segment, else '/s1/s2...' and
\* the trailing slash when there is one.
PathString(p) ==
    IF p.segs = <<>> THEN <<"/">>
    ELSE Render(p.segs) \o (IF p.slash THEN <<"/">> ELSE <<>>)

\* path.replace(/\/$/, '') || '/'
normalizePathString(str) ==
    LET cut == IF str # <<>> /\ str[Len(str)] = "/" THEN SubSeq(str, 1, Len(str) - 1) ELSE str
    IN  IF cut = <<>> THEN <<"/">> ELSE cut

\* A capture group that took no part in the match.
Undefined == <<"undefined">>

Mismatch == [ok |-> FALSE, caps |-> <<>>, end |-> 0]

\* The length of the longest run of characters other than '/' from pos on.
RECURSIVE NonSlashRun(_, _)
NonSlashRun(str, pos) ==
    IF pos > Len(str) \/ str[pos] = "/" THEN 0 ELSE 1 + NonSlashRun(str, pos + 1)

NotAnchored(str, pos) == TRUE

\* '/?$' of the route regex.
RouteTail(str, pos) == pos > Len(str) \/ (pos = Len(str) /\ str[pos] = "/")

\* '(?=/|$)' of the prefix regex.
PrefixTail(str, pos) == pos > Len(str) \/ str[pos] = "/"

\* RegExp matching from position pos with the fragments of the template from
\* the i-th on: a literal '/lit', '/([^/]+)' for a param (and for a catch-all
\* of a prefix), '(?:/([^/]*))?' for an optional segment, '/(.+)' for a
\* catch-all of a route.  Quantifiers are greedy: the longest repetition for
\* which the rest of the expression matches is taken, and an optional group is
\* left out only when no repetition inside it lets the rest match.  The result
\* holds the capture groups and the last position of the match.
RECURSIVE RegexFrom(_, _, _, _, _)
RegexFrom(t, i, str, pos, prefix) ==
    IF i > Len(t)
    THEN IF prefix
         THEN [ok |-> PrefixTail(str, pos), caps |-> <<>>, end |-> pos - 1]
         ELSE [ok |-> RouteTail(str, pos), caps |-> <<>>, end |-> Len(str)]
    ELSE LET slash == pos <= Len(str) /\ str[pos] = "/"
             After(n) == RegexFrom(t, i + 1, str, pos + 1 + n, prefix)
             Longest(L) == CHOOSE n \in L : \A m \in L : m <= n
             Taking(L) ==
                 [ok |-> TRUE,
                  caps |-> <<SubSeq(str, pos + 1, pos + Longest(L))>> \o After(Longest(L)).caps,
                  end |-> After(Longest(L)).end]
         IN  IF t[i].k = "static"
             THEN LET w == Spell(t[i].v)
                  IN  IF slash /\ pos + Len(w) <= Len(str)
                            /\ SubSeq(str, pos + 1, pos + Len(w)) = w
                      THEN After(Len(w)) ELSE Mismatch
             ELSE IF t[i].k = "optional"
             THEN LET L == IF slash
                           THEN {n \in 0..NonSlashRun(str, pos + 1) : After(n).ok}
                           ELSE {}
                      skipped == RegexFrom(t, i + 1, str, pos, prefix)
                  IN  IF L # {} THEN Taking(L)
                      ELSE IF skipped.ok
                      THEN [ok |-> TRUE, caps |-> <<Undefined>> \o skipped.caps,
                            end |-> skipped.end]
                      ELSE Mismatch
             ELSE IF t[i].k = "catchall" /\ ~prefix
             THEN LET L == IF slash THEN {n \in 1..(Len(str) - pos) : After(n).ok} ELSE {}
                  IN  IF L # {} THEN Taking(L) ELSE Mismatch
             ELSE LET L == IF slash
                           THEN {n \in 1..NonSlashRun(str, pos + 1) : After(n).ok}
                           ELSE {}
                  IN  IF L # {} THEN Taking(L) ELSE Mismatch

\* path.match(route.regex) on the normalized path.
matchRoute(t, p) == RegexFrom(t, 1, normalizePathString(PathString(p)), 1, FALSE)

\* A prefix matched with the regex of a route.
matchPrefixAsRoute(t, p) == RegexFrom(t, 1, normalizePathString(PathString(p)), 1, FALSE)

\* path.match(nestedRouter.regex) on the normalized path.
matchPrefix(t, p) == RegexFrom(t, 1, normalizePathString(PathString(p)), 1, TRUE)

\* remainingPath of matchesPrefix: what follows the match, '/' when nothing.
remainingPath(str, m) ==
    LET rest == SubSeq(str, m.end + 1, Len(str))
    IN  IF rest = <<>> THEN <<"/">>
        ELSE IF rest[1] = "/" THEN rest ELSE <<"/">> \o rest

\* match[k] || ''
OrEmpty(cap) == IF cap = Undefined THEN <<>> ELSE cap

\* ------------------------------------------------------------------------
\* The regex specification: every template and path within the bounds is
\* matched as a route and as a mount prefix
\* ------------------------------------------------------------------------
SegmentKinds == {St("a"), Pa("x"), Op("y"), Ca("z")}

PathSegments == {"a", "ab"}

RegexTemplates == UNION {[1..n -> SegmentKinds] : n \in 0..MaxTemplate}

RegexPaths ==
    {RawPath(segs, slash) :
        segs \in UNION {[1..n -> PathSegments] : n \in 0..MaxPathLen}, slash \in BOOLEAN}

\* The inputs are drawn by the initial state; each is matched once.
InitRegex ==
    /\ \E t \in RegexTemplates, p \in RegexPaths :
          ev = [kind |-> "input", template |-> t, path |-> p, out |-> Mismatch]
    /\ routers = [r \in RouterIds |-> NewRouter]
    /\ services = [n \in Names |-> None]
    /\ loadingPromises = [n \in Names |-> 0]
    /\ accessLists = [k \in Keys |-> {}]
    /\ lastAccess = NoAccess
    /\ gateways = [g \in GwIds |-> None]
    /\ calls = [c \in Calls |-> IdleCall]
    /\ hmr = {}
    /\ hookCalls = [d \in DescIds |-> 0]
    /\ cleanupCalls = [d \in DescIds |-> 0]
    /\ retired = {}
    /\ reloadDone = {}

MatchRoute(t, p) ==
    /\ ev.kind = "input" /\ ev.template = t /\ ev.path = p
    /\ ev' = [kind |-> "route", template |-> t, path |-> p, out |-> matchRoute(t, p)]
    /\ UNCHANGED <<routers, services, loadingPromises, accessLists, lastAccess, gateways,
                   calls, hmr, hookCalls, cleanupCalls, retired, reloadDone>>

MatchPrefix(t, p) ==
    /\ ev.kind = "input" /\ ev.template = t /\ ev.path = p
    /\ ev' = [kind |-> "prefix", template |-> t, path |-> p, out |-> matchPrefix(t, p)]
    /\ UNCHANGED <<routers, services, loadingPromises, accessLists, lastAccess, gateways,
                   calls, hmr, hookCalls, cleanupCalls, retired, reloadDone>>

NextRegex ==
    \/ \E t \in RegexTemplates, p \in RegexPaths : MatchRoute(t, p)
    \/ \E t \in RegexTemplates, p \in RegexPaths : MatchPrefix(t, p)

SpecRegex == InitRegex /\ [][NextRegex]_vars

\* ------------------------------------------------------------------------
\* Properties of the gateway (checked under SpecGw)
\* ------------------------------------------------------------------------
GwKey == gateways[ev.gw]

Resolved == ev.kind = "request" /\ ev.svc # None

\* C1: a request that resolved a service reaches the service's route tree
\* (router, handler function or method map) only if the service's name is in
\* the allow-list of the gateway's key when the dispatch runs; otherwise its
\* outcome is the 403 Forbidden error and no handler is invoked.
DispatchOnlyIfAllowed ==
    Resolved =>
        IF ev.name \in accessLists[GwKey]
        THEN ev.out.status # 403
        ELSE ev.out = Failed(403, "Forbidden")

\* The gateway's list names the other service, which is committed, and the
\* request for the committed service that is not on the list is refused.
ForbiddenNotListed ==
    /\ Resolved
    /\ ev.out.status = 403
    /\ accessLists[GwKey] # {}
    /\ \A n \in accessLists[GwKey] : services[n] # None

\* C2: a step changes the allow-list of at most one key (access() on one key
\* leaves every other key's list as it was), and a service allowed only on
\* another gateway's key is refused with Forbidden.
OneKeyPerAccess ==
    \A k, j \in Keys :
        (accessLists'[k] # accessLists[k] /\ j # k) => accessLists'[j] = accessLists[j]

AllowListsIsolated ==
    /\ [](Resolved /\ ev.name \notin accessLists[GwKey] => ev.out = Failed(403, "Forbidden"))
    /\ [][OneKeyPerAccess]_vars

\* Two gateways with distinct keys, both lists set by access(), the service
\* named only on the other gateway's list, and the request refused.
RefusedOnOtherGateway ==
    /\ Resolved
    /\ gateways["g1"] # None /\ gateways["g2"] # None /\ gateways["g1"] # gateways["g2"]
    /\ \A k \in Keys : accessLists[k] # {}
    /\ ev.name \notin accessLists[GwKey]
    /\ \E k \in Keys \ {GwKey} : ev.name \in accessLists[k]
    /\ ev.out.status = 403

\* ------------------------------------------------------------------------
\* Properties of the router (checked under SpecRouter)
\* ------------------------------------------------------------------------
Literal(t) == [i \in 1..Len(t) |-> t[i].v]

\* The first registered route of its method and template.
FirstOfItsKind(routes, i) ==
    \A j \in 1..(i - 1) : ~(routes[j].method = routes[i].method /\ routes[j].path = routes[i].path)

\* C3: on a router without mounts, a request whose method and normalized path
\* are those of a registered fully static route R is answered by R's handler
\* (the first registered, when the same route was registered more than once),
\* whatever param, optional or catch-all routes match the path too and in
\* whatever order the routes were registered.
StaticAlwaysWins ==
    (ev.kind = "handle" /\ routers[ev.gw].nested = <<>>) =>
        \A i \in 1..Len(routers[ev.gw].routes) :
            LET R == routers[ev.gw].routes[i]
            IN  (/\ IsStaticTemplate(R.path)
                 /\ R.method = ev.method
                 /\ Literal(R.path) = ev.path
                 /\ FirstOfItsKind(routers[ev.gw].routes, i))
                => ev.out = Served(R.handler, R.path)

\* A static route answers although a param, optional or catch-all route that
\* matches the same path was registered before it for the same method.
StaticWinsOverEarlierDynamic ==
    /\ ev.kind = "handle" /\ routers[ev.gw].nested = <<>>
    /\ \E i, j \in 1..Len(routers[ev.gw].routes) :
          LET R == routers[ev.gw].routes[i]
              D == routers[ev.gw].routes[j]
          IN  /\ j < i
              /\ IsStaticTemplate(R.path) /\ R.method = ev.method /\ Literal(R.path) = ev.path
              /\ ~IsStaticTemplate(D.path) /\ D.method = ev.method /\ RouteMatches(D.path, ev.path)
              /\ ev.out = Served(R.handler, R.path)

\* ------------------------------------------------------------------------
\* Properties of Load (checked under Spec)
\* ------------------------------------------------------------------------
LoadCalls(n) == {c \in Calls : calls[c].op = "load" /\ calls[c].name = n}

\* C4: a Load that finds its descriptor's name committed returns the
\* committed descriptor.
LoadReturnsCommitted ==
    \A c \in Calls : (calls[c].op = "load" /\ calls[c].early) => calls[c].d = calls[c].seen

\* C5: Load calls of one uncommitted name that overlapped get the same result.
OverlappingLoadsAgree ==
    \A n \in Names : \A b, c \in LoadCalls(n) :
        (/\ calls[b].raced /\ calls[c].raced
         /\ calls[b].d = calls[c].d
         /\ calls[b].pc = "done" /\ calls[c].pc = "done")
        => calls[b].res = calls[c].res

\* C6: a descriptor with a load hook is in the services table only when no
\* invocation of its hook is pending and one has completed successfully.
CommittedAfterHook ==
    \A n \in Names :
        (services[n] # None /\ Desc[services[n]].load) =>
            /\ \A c \in Calls : ~(calls[c].op = "load" /\ calls[c].d = services[n]
                                  /\ calls[c].pc = "awaitHook")
            /\ \E c \in Calls : calls[c].op = "load" /\ calls[c].d = services[n]
                                /\ calls[c].hook = "ok"

\* C7: when the only invocation of a descriptor's load hook failed, the
\* descriptor is not committed and no Load of it returned successfully.
FailedHookNotCommitted ==
    \A c \in Calls :
        (calls[c].op = "load" /\ calls[c].hook \in {"failed", "threw"} /\ hookCalls[calls[c].d] = 1) =>
            /\ services[calls[c].name] # calls[c].d
            /\ \A b \in Calls : (calls[b].op = "load" /\ calls[b].d = calls[c].d)
                                    => calls[b].res # "ok"

\* ------------------------------------------------------------------------
\* Properties of Reload (checked under Spec)
\* ------------------------------------------------------------------------
ReloadStarts(c) == calls[c].op = None /\ calls'[c].op = "reload"

ReloadCompletes(c) ==
    /\ calls'[c].op = "reload" /\ calls'[c].pc = "done" /\ calls'[c].res = "ok"
    /\ ~(calls[c].op = "reload" /\ calls[c].pc = "done")

RouterIsEmpty(R) ==
    /\ R.routes = <<>>
    /\ R.nested = <<>>
    /\ \A m \in Methods : R.routesByMethod[m] = <<>>

ReloadStep(c) ==
    LET n == calls'[c].name
        d == services[n]
    IN  /\ (ReloadStarts(c) /\ d = None) =>
               /\ calls'[c].pc = "done" /\ calls'[c].res = "noop"
               /\ UNCHANGED <<routers, services, loadingPromises, cleanupCalls, hookCalls>>
        /\ (ReloadStarts(c) /\ d # None /\ Desc[d].cleanup) =>
               /\ calls'[c].pc = "awaitCleanup"
               /\ cleanupCalls'[d] = cleanupCalls[d] + 1
               /\ UNCHANGED <<routers, services, loadingPromises>>
        /\ (ReloadStarts(c) /\ d # None /\ ~Desc[d].cleanup) =>
               /\ ReloadCompletes(c)
               /\ UNCHANGED cleanupCalls
        /\ ReloadCompletes(c) =>
               /\ Desc[calls'[c].d].cleanup => cleanupCalls[calls'[c].d] >= 1
               /\ Desc[calls'[c].d].route.kind = "router" =>
                      RouterIsEmpty(routers'[Desc[calls'[c].d].route.router])
               /\ services'[n] = None
               /\ loadingPromises'[n] = 0

\* C8: Reload of an uncommitted name changes nothing.  Reload of a committed
\* name enters the cleanup hook (when there is one) before it touches the
\* router or the tables; the step that completes it leaves the name in
\* neither table and the service's router without routes and mounts.
ReloadProtocol == [][\A c \in Calls : ReloadStep(c)]_vars

\* A Reload whose cleanup hook failed has completed: the name is in neither
\* table and the router of the service is empty.
ReloadCompletedAfterCleanup ==
    \E c \in Calls :
        /\ calls[c].op = "reload" /\ calls[c].pc = "done" /\ calls[c].res = "ok"
        /\ calls[c].cleanupFailed
        /\ cleanupCalls[calls[c].d] >= 1
        /\ services[calls[c].name] = None
        /\ RouterIsEmpty(routers[Desc[calls[c].d].route.router])

\* C9: no request is served by a handler of a service while a Reload of that
\* service is between the entry of its cleanup hook and its completion.
NoServiceDuringTeardown ==
    ~(/\ ev.kind = "request"
      /\ ev.out.handler # None
      /\ \E c \in Calls : /\ calls[c].op = "reload" /\ calls[c].pc = "awaitCleanup"
                          /\ calls[c].d = ev.svc)

InitHandler(r) == IF r = "r1" THEN "h1" ELSE "h2"

\* The router was reset by a Reload that completed.
WasReset(r) == InitHandler(r) \in retired

SettledLoadAfterReload(c) ==
    /\ calls[c].op = "load" /\ calls[c].pc = "done"
    /\ calls[c].afterReload /\ ~calls[c].raced
    /\ calls[c].depErr = None /\ calls[c].hook \notin {"failed", "threw"}

\* C10: after a Reload completed, a request for the name fails with the 404
\* not-found error (at the selector while the name is uncommitted, as
\* RouteNotFound at the reset router); a Load of a descriptor of that name
\* that follows the Reload, overlaps no other Load of the name and whose hook
\* and dependencies do not fail succeeds and commits its descriptor; a request
\* for a committed, allowed service whose router was not reset is served by
\* that router's route; and no handler removed by a Reload is served again.
ReloadThenLoad ==
    /\ (ev.kind = "request" /\ ev.svc = None) => ev.out = Failed(404, "ServiceNotFound")
    /\ (Resolved /\ ev.name \in accessLists[GwKey] /\ Desc[ev.svc].route.kind = "router") =>
           IF WasReset(Desc[ev.svc].route.router)
           THEN ev.out = RouteNotFound(ev.method, ev.path)
           ELSE ev.method = "GET" =>
                    ev.out = [Served(InitHandler(Desc[ev.svc].route.router), <<St("v")>>)
                                 EXCEPT !.params = SelectorParams(ev.name)]
    /\ \A c \in Calls : SettledLoadAfterReload(c) =>
           calls[c].res = "ok" /\ calls[c].committed /\ ~calls[c].early
    /\ ev.out.handler \notin retired
    /\ \A r \in RouterIds : RouterHandlers(routers[r]) \cap retired = {}

\* The module of service "a" was replaced: the accept callback reloaded the
\* name and loaded the new descriptor, and a request is served by the new
\* router's handler.
NewVersionServed ==
    /\ ev.kind = "request" /\ ev.out.handler = "h2"
    /\ "h1" \in retired
    /\ \E c \in Calls : SettledLoadAfterReload(c) /\ calls[c].d = "d2" /\ calls[c].hot

\* ------------------------------------------------------------------------
\* Properties of the committed table (checked under Spec)
\* ------------------------------------------------------------------------
\* C11: the entry of a committed name changes only by being removed (which
\* only Reload does): no step replaces a committed descriptor by another.
CommittedUntilReload ==
    [][\A n \in Names :
          (services[n] # None /\ services'[n] # services[n]) => services'[n] = None]_vars

\* ------------------------------------------------------------------------
\* The dependency specification: Loads of descriptors with dependsOn
\* ------------------------------------------------------------------------
DepDescs == {"d2", "d3", "d4", "d5", "d6"}

NextDeps ==
    \/ \E c \in Calls, d \in DepDescs : LoadCall(c, d)
    \/ \E c \in Calls : LoadResume(c)
    \/ \E c \in Calls : LoadAfterDeps(c)
    \/ \E c \in Calls, ok \in BOOLEAN : HookSettles(c, ok)
    \/ \E c \in Calls : LoadAfterHook(c)
    \/ \E c \in Calls : LoadReturn(c)
    \/ \E c \in Calls, n \in Names : ReloadCall(c, n)

SpecDeps == Init /\ [][NextDeps]_vars

DependsOn(d) == {Desc[d].dependsOn[i] : i \in 1..Len(Desc[d].dependsOn)}

\* C12: a Load of a descriptor that names itself in dependsOn fails with
\* CircularDependency, and two descriptors that depend on each other are
\* never committed together.
CircularDependencyDetected ==
    /\ \A c \in Calls :
          (/\ calls[c].op = "load" /\ calls[c].pc = "done" /\ ~calls[c].early
           /\ calls[c].name \in DependsOn(calls[c].d))
          => calls[c].res = "CircularDependency"
    /\ ~(services["a"] = "d6" /\ services["b"] = "d3")

MissingDependency(c) ==
    \E n \in DependsOn(calls[c].d) : services[n] = None

Untouched == UNCHANGED <<services, loadingPromises, hookCalls>>

DependencyStep(c) ==
    /\ (/\ calls[c].op = "load" /\ calls[c].pc = "awaitSvc" /\ calls'[c].pc # "awaitSvc"
        /\ services[calls[c].name] = None /\ MissingDependency(c))
       => /\ calls'[c].pc = "awaitDeps"
          /\ calls'[c].depErr = "DependencyNotFound"
          /\ Untouched
    /\ (/\ calls[c].op = "load" /\ calls[c].pc = "awaitDeps" /\ calls'[c].pc # "awaitDeps"
        /\ calls[c].depErr # None)
       => /\ calls'[c].pc = "done"
          /\ calls'[c].res = "DependencyNotFound"
          /\ ~calls'[c].committed /\ calls'[c].hook = None
          /\ Untouched

\* C13: a Load that reaches its dependencies while one of the names is not
\* committed is rejected with DependencyNotFound; neither the step that finds
\* the name missing nor the step that delivers the rejection changes the
\* committed table, the in-flight table or the count of any load hook.
MissingDependencyFails == [][\A c \in Calls : DependencyStep(c)]_vars

\* A Load of a descriptor with a load hook was rejected for a missing
\* dependency: its hook never ran and its name is in neither table.
RejectedForMissingDependency ==
    \E c \in Calls :
        /\ calls[c].op = "load" /\ calls[c].pc = "done"
        /\ calls[c].res = "DependencyNotFound"
        /\ calls[c].d = "d6"
        /\ hookCalls["d6"] = 0
        /\ services["a"] = None /\ loadingPromises["a"] = 0

\* ------------------------------------------------------------------------
\* Properties of the shared allow-list (checked under SpecAccess)
\* ------------------------------------------------------------------------
\* C14: after access(S) through any gateway, the list of that gateway's key
\* is S whichever gateways are created afterwards under the key, and every
\* gateway of the key, the calling one or another, created before or after
\* the call, admits a resolved request exactly when its service is in S.
SharedAllowList ==
    lastAccess.by # None =>
        /\ accessLists[lastAccess.key] = lastAccess.names
        /\ (Resolved /\ GwKey = lastAccess.key) =>
               (ev.out.status # 403 <=> ev.name \in lastAccess.names)

\* A request through the gateway that did not call access(), sharing the
\* caller's key, is admitted and served for a name the call listed.
AdmittedThroughOtherGateway ==
    /\ Resolved
    /\ lastAccess.by # None /\ ev.gw # lastAccess.by
    /\ GwKey = lastAccess.key
    /\ ev.name \in lastAccess.names
    /\ ev.out.status = 200

\* C15: access(n1..nk) leaves the list of the gateway's key exactly
\* {n1..nk} (empty for access() without names), and a request for a name the
\* call removed from the list is refused with Forbidden.
AccessStep ==
    \A g \in GwIds, S \in SUBSET Names :
        AccessObserved(g, S) => accessLists'[gateways[g]] = S

AccessReplaces ==
    /\ [][AccessStep]_vars
    /\ []((Resolved /\ GwKey = lastAccess.key /\ ev.name \in lastAccess.dropped)
            => ev.out = Failed(403, "Forbidden"))

\* A name that was on the list before the last access() and was not repeated
\* in it is requested on that key and refused.
DroppedNameForbidden ==
    /\ Resolved
    /\ GwKey = lastAccess.key
    /\ ev.name \in lastAccess.dropped
    /\ ev.out.status = 403

\* ------------------------------------------------------------------------
\* Properties of nested routers (checked under SpecNested)
\* ------------------------------------------------------------------------
\* A prefix of static and param segments covers a path whose leading
\* segments are as many and carry the prefix's literals.
PrefixCovers(prefix, segs) ==
    /\ Len(prefix) <= Len(segs)
    /\ \A i \in 1..Len(prefix) : prefix[i].k = "static" => segs[i] = prefix[i].v

\* The mount that takes the path: the covering one of highest priority, the
\* earliest of the list among equals; 0 when no mount covers the path.
WinningMount(R, segs) ==
    LET M == {i \in 1..Len(R.nested) : PrefixCovers(R.nested[i].prefix, segs)}
    IN  IF M = {} THEN 0
        ELSE CHOOSE i \in M :
                \A j \in M : \/ R.nested[j].priority < R.nested[i].priority
                              \/ (R.nested[j].priority = R.nested[i].priority /\ i <= j)

\* Each param segment of the prefix bound to the path segment at its place.
PrefixParams(prefix, segs) ==
    LET P == {i \in 1..Len(prefix) : prefix[i].k = "param"}
    IN  [n \in {prefix[i].v : i \in P} |-> <<segs[CHOOSE i \in P : prefix[i].v = n]>>]

\* The router that ends up dispatching locally, with the path and the params
\* it is given, following the winning mount at every depth.
RECURSIVE Descent(_, _, _, _)
Descent(r, segs, params, fuel) ==
    LET w == WinningMount(routers[r], segs)
        m == routers[r].nested[w]
    IN  IF w = 0 \/ fuel = 0
        THEN [router |-> r, segs |-> segs, params |-> params, depth |-> MaxDepth - fuel]
        ELSE Descent(m.router, SubSeq(segs, Len(m.prefix) + 1, Len(segs)),
                     Merge(params, PrefixParams(m.prefix, segs)), fuel - 1)

\* C16: when a mount takes the request, the router that dispatches it, at
\* whatever depth, is called with the residual path (the root path when
\* nothing remains) and with the event's params overridden by the prefix
\* params of every mount on the way; the handler it invokes sees those params
\* overridden by its own route's.
ResidualPathAndParams ==
    (ev.kind = "handle" /\ WinningMount(routers[ev.gw], ev.path) # 0) =>
        LET F == Descent(ev.gw, ev.path, ev.params, MaxDepth)
        IN  ev.out = handleLocalRoutes(sortRoutes(routers[F.router]), ev.method, F.segs, F.params,
                                      RawPath(F.segs, FALSE))

\* GET /users/42/profile through the mount '/users/[id]': the child's
\* '/profile' handler runs and sees id = '42', over the event's own id = '0',
\* and the event's other param.
ProfileSeesId ==
    /\ ev.kind = "handle"
    /\ ev.path = <<"users", "42", "profile">>
    /\ WinningMount(routers[ev.gw], ev.path) # 0
    /\ routers[ev.gw].nested[WinningMount(routers[ev.gw], ev.path)].prefix
          = <<St("users"), Pa("id")>>
    /\ ev.params = [n \in {"id", "lang"} |-> IF n = "id" THEN <<"0">> ELSE <<"en">>]
    /\ ev.out.status = 200
    /\ ev.out.route = <<St("profile")>>
    /\ ev.out.params = [n \in {"id", "lang"} |-> IF n = "id" THEN <<"42">> ELSE <<"en">>]

\* The prefix params of the mounts a request goes through, outermost first.
RECURSIVE MountBindings(_, _, _)
MountBindings(r, segs, fuel) ==
    LET w == WinningMount(routers[r], segs)
        m == routers[r].nested[w]
    IN  IF w = 0 \/ fuel = 0 THEN <<>>
        ELSE <<PrefixParams(m.prefix, segs)>> \o
             MountBindings(m.router, SubSeq(segs, Len(m.prefix) + 1, Len(segs)), fuel - 1)

\* Everything that binds params on the way of the served request: the
\* incoming event, each mount from the outermost in, then the matched route.
BindingChain ==
    <<ev.params>> \o MountBindings(ev.gw, ev.path, MaxDepth) \o
    <<extractParamsFromMatch(ev.out.route, Descent(ev.gw, ev.path, ev.params, MaxDepth).segs)>>

Binders(chain, n) == {i \in 1..Len(chain) : n \in DOMAIN chain[i]}

LastBinder(chain, n) == CHOOSE i \in Binders(chain, n) : \A j \in Binders(chain, n) : j <= i

\* C32: the params the handler sees are exactly the names bound along the
\* resolution (event, outer mounts, inner mounts, matched route), each with
\* the value of the innermost binder.
InnermostBindingWins ==
    (ev.kind = "handle" /\ ev.out.status = 200) =>
        /\ DOMAIN ev.out.params = UNION {DOMAIN BindingChain[i] : i \in 1..Len(BindingChain)}
        /\ \A n \in DOMAIN ev.out.params :
              ev.out.params[n] = BindingChain[LastBinder(BindingChain, n)][n]

\* GET /users/42 through the mount '/[id]' (id = 'users') to the child's
\* route '/[id]': the handler sees id = '42', the route's value, not the
\* mount's and not the event's own id = '0'.
RouteOverridesMount ==
    /\ ev.kind = "handle" /\ ev.out.status = 200
    /\ ev.path = <<"users", "42">>
    /\ ev.params = [n \in {"id", "lang"} |-> IF n = "id" THEN <<"0">> ELSE <<"en">>]
    /\ Len(BindingChain) = 3
    /\ BindingChain[2] = [n \in {"id"} |-> <<"users">>]
    /\ ev.out.route = <<Pa("id")>>
    /\ ev.out.params = [n \in {"id", "lang"} |-> IF n = "id" THEN <<"42">> ELSE <<"en">>]

\* C17: when a mount covers the path, the outcome of handle is the outcome
\* of the child of the covering mount of highest priority on the residual
\* path, a RouteNotFound of the child included: no local route of the parent
\* and no other mount answers.  When no mount covers the path, the outcome is
\* that of the parent's local routes.
MountsBeforeLocalRoutes ==
    ev.kind = "handle" =>
        LET R == routers[ev.gw]
            w == WinningMount(R, ev.path)
            m == R.nested[w]
        IN  IF w = 0
            THEN ev.out = handleLocalRoutes(sortRoutes(R), ev.method, ev.path, ev.params,
                                              RawPath(ev.path, FALSE))
            ELSE ev.out = handle(routers, m.router, ev.method,
                                 RawPath(SubSeq(ev.path, Len(m.prefix) + 1, Len(ev.path)), FALSE),
                                 Merge(ev.params, PrefixParams(m.prefix, ev.path)),
                                 MaxDepth - 1).out

\* Two mounts and a local catch-all route of the parent cover the path; the
\* child of the mount of higher priority has no route for the residual path,
\* the child of the other mount has one, and the outcome is RouteNotFound.
ChildFailureIsFinal ==
    /\ ev.kind = "handle"
    /\ ev.out.err = "RouteNotFound"
    /\ handleLocalRoutes(sortRoutes(routers[ev.gw]), ev.method, ev.path, ev.params,
                         RawPath(ev.path, FALSE)).status = 200
    /\ \E i, j \in 1..Len(routers[ev.gw].nested) :
          LET hi == routers[ev.gw].nested[i]
              lo == routers[ev.gw].nested[j]
          IN  /\ i = WinningMount(routers[ev.gw], ev.path)
              /\ lo.priority < hi.priority
              /\ PrefixCovers(lo.prefix, ev.path)
              /\ handle(routers, lo.router, ev.method,
                        RawPath(SubSeq(ev.path, Len(lo.prefix) + 1, Len(ev.path)), FALSE),
                        NoParams, MaxDepth - 1).out.status = 200

\* ------------------------------------------------------------------------
\* Properties of the compiled expressions (checked under SpecRegex)
\* ------------------------------------------------------------------------
\* The string of a param value: its segments joined by '/'.
JoinSegs(segs) == IF segs = <<>> THEN <<>> ELSE Tail(Render(segs))

\* The template read with its captures in place of its dynamic segments.
RECURSIVE Refill(_, _)
Refill(t, caps) ==
    IF t = <<>> THEN <<>>
    ELSE IF Head(t).k = "static" THEN <<Head(t).v>> \o Refill(Tail(t), caps)
    ELSE Head(caps) \o Refill(Tail(t), Tail(caps))

\* Each capture holds what its kind of segment may hold: one segment for a
\* param, none or one for an optional segment, one or more for a catch-all.
RECURSIVE CapturesFit(_, _)
CapturesFit(t, caps) ==
    IF t = <<>> THEN caps = <<>>
    ELSE IF Head(t).k = "static" THEN CapturesFit(Tail(t), caps)
    ELSE /\ caps # <<>>
         /\ Head(t).k = "param" => Len(Head(caps)) = 1
         /\ Head(t).k = "optional" => Len(Head(caps)) <= 1
         /\ Head(t).k = "catchall" => Len(Head(caps)) >= 1
         /\ CapturesFit(Tail(t), Tail(caps))

\* C18: the route regex matches a normalized path exactly when the segments
\* of the path match the segments of the template in order (a literal for a
\* static segment, one segment for [name], none or one for [[name]], one or
\* more for [...name]); on a match the capture groups are, in declaration
\* order, the segments of the params (a catch-all's joined by '/', the empty
\* string for an optional segment left out), and the template read with them
\* is the path.
RouteRegexMatchesSegments ==
    ev.kind = "route" =>
        LET b == BindFrom(ev.template, 1, ev.path.segs, 1)
        IN  /\ ev.out.ok = RouteMatches(ev.template, ev.path.segs)
            /\ ev.out.ok =>
                  /\ Len(ev.out.caps) = Len(paramNames(ev.template))
                  /\ \A i \in 1..Len(ev.out.caps) :
                        OrEmpty(ev.out.caps[i]) = JoinSegs(b.caps[i])
                  /\ CapturesFit(ev.template, b.caps)
                  /\ Refill(ev.template, b.caps) = ev.path.segs

\* '/a/[...z]' on '/a/ab/a/': the trailing slash is dropped and the
\* catch-all holds 'ab/a'.
CatchAllJoined ==
    /\ ev.kind = "route"
    /\ ev.template = <<St("a"), Ca("z")>>
    /\ ev.path = RawPath(<<"a", "ab", "a">>, TRUE)
    /\ ev.out.ok
    /\ ev.out.caps = <<<<"a", "b", "/", "a">>>>

\* C20: a mount prefix matches a path only on whole segments: the match ends
\* at the end of the path or before a '/', it takes as many leading segments
\* as the prefix matches segment by segment, the child's path is made of the
\* segments that follow ('/' when none does), and the capture groups are the
\* segments taken by the dynamic segments of the prefix.
PrefixMatchesWholeSegments ==
    ev.kind = "prefix" =>
        LET str == normalizePathString(PathString(ev.path))
            k == PrefixFrom(ev.template, 1, ev.path.segs, 1)
            b == PrefixBind(ev.template, 1, ev.path.segs, 1)
        IN  /\ ev.out.ok = (k # -1)
            /\ ev.out.ok =>
                  /\ ev.out.end = Len(str) \/ str[ev.out.end + 1] = "/"
                  /\ remainingPath(str, ev.out)
                        = PathString(RawPath(SubSeq(ev.path.segs, k + 1, Len(ev.path.segs)), FALSE))
                  /\ \A i \in 1..Len(ev.out.caps) :
                        OrEmpty(ev.out.caps[i]) = JoinSegs(b.caps[i])

\* The prefix '/a' does not match '/ab'.
LongerSegmentNotMatched ==
    /\ ev.kind = "prefix"
    /\ ev.template = <<St("a")>>
    /\ ev.path = RawPath(<<"ab">>, FALSE)
    /\ ~ev.out.ok

\* ------------------------------------------------------------------------
\* Properties of the priority score (checked under SpecPriority)
\* ------------------------------------------------------------------------
\* The classes of the order: fully static, params without a catch-all,
\* catch-all.
RouteClass(t) == IF IsStaticTemplate(t) THEN 2 ELSE IF isCatchAll(t) THEN 0 ELSE 1

\* C19: among the routes of the request's method that match the path, the
\* route chosen is of the highest class present: a fully static route before
\* any route with a parameter, and a route with parameters and no catch-all
\* before any catch-all route, whatever the number of segments.
ClassOrderRespected ==
    (ev.kind = "handle" /\ ev.out.status = 200) =>
        \A i \in 1..Len(routers[ev.gw].routes) :
            LET R == routers[ev.gw].routes[i]
            IN  (R.method = ev.method /\ RouteMatches(R.path, ev.path))
                => RouteClass(R.path) <= RouteClass(ev.out.route)

\* ------------------------------------------------------------------------
\* Properties of the local dispatch (checked under SpecRouter)
\* ------------------------------------------------------------------------
NoMountMatches(R, segs) == \A i \in 1..Len(R.nested) : matchesPrefix(segs, R.nested[i]) = -1

NoRouteMatches(R, method, segs) ==
    \A i \in 1..Len(R.routes) :
        ~(R.routes[i].method = method /\ RouteMatches(R.routes[i].path, segs))

\* C21: when no mount matches the path and no route registered for the
\* request's method matches it, handle fails with the 404 RouteNotFound error
\* that names the method and the normalized path, and invokes no handler,
\* whatever routes of other methods match the path.
UnmatchedIsRouteNotFound ==
    (/\ ev.kind = "handle"
     /\ NoMountMatches(routers[ev.gw], ev.path)
     /\ NoRouteMatches(routers[ev.gw], ev.method, ev.path))
    => /\ ev.out = RouteNotFound(ev.method, ev.path)
       /\ ev.out.handler = None
       /\ ev.out.msg = [method |-> ev.method, path |-> RawPath(ev.path, FALSE)]

\* GET /a fails with RouteNotFound although POST /a is registered.
OtherMethodDoesNotServe ==
    /\ ev.kind = "handle" /\ ev.method = "GET"
    /\ ev.out.status = 404 /\ ev.out.handler = None
    /\ \E i \in 1..Len(routers[ev.gw].routes) :
          /\ routers[ev.gw].routes[i].method = "POST"
          /\ RouteMatches(routers[ev.gw].routes[i].path, ev.path)

\* ------------------------------------------------------------------------
\* Properties of discard (checked under SpecDiscard)
\* ------------------------------------------------------------------------
\* The per-method index holds the routes of its method, each once.
IndexHoldsRoutes(R) ==
    \A m \in Methods :
        LET OfMethod(r) == r.method = m
            listed == R.routesByMethod[m]
            registered == SelectSeq(R.routes, OfMethod)
        IN  /\ Len(listed) = Len(registered)
            /\ \A i \in 1..Len(registered) : \E j \in 1..Len(listed) : listed[j] = registered[i]

DiscardOfMethod ==
    \A p \in DiscardTexts, m \in Methods :
        DiscardObserved("r1", p, m) =>
            LET Others(r) == ~(r.text = p /\ r.method = m)
            IN  /\ routers'["r1"].routes = SelectSeq(routers["r1"].routes, Others)
                /\ routers'["r1"].nested = routers["r1"].nested
                /\ routers'["r1"].nestedSorted = routers["r1"].nestedSorted
                /\ IndexHoldsRoutes(routers'["r1"])

\* ------------------------------------------------------------------------
\* ServiceManager.Internal: the in-process call of a service's `local`
\* ------------------------------------------------------------------------
\* JavaScript values a `local` member, an argument or a result can be.
Num(n) == [type |-> "number", num |-> n, str |-> ""]
Str(x) == [type |-> "string", num |-> 0, str |-> x]
Bool(b) == [type |-> "boolean", num |-> IF b THEN 1 ELSE 0, str |-> ""]
JsUndefined == [type |-> "undefined", num |-> 0, str |-> ""]

\* The truth value `!x` negates.
Truthy(v) ==
    CASE v.type = "number" -> v.num # 0
      [] v.type = "string" -> v.str # ""
      [] v.type = "boolean" -> v.num = 1
      [] v.type = "function" -> TRUE
      [] OTHER -> FALSE

Fn(f) == [type |-> "function", num |-> 0, str |-> f]

\* The `local` member of each descriptor: absent from d1, a non-empty string
\* in d2, the number 0 in d3, a function that counts its arguments in d4,
\* the boolean false in d5, a function that returns its first argument in
\* d6, the number 1 in d7.
Local ==
    [d1 |-> JsUndefined, d2 |-> Str("x"), d3 |-> Num(0), d4 |-> Fn("count"),
     d5 |-> Bool(FALSE), d6 |-> Fn("first"), d7 |-> Num(1)]

\* service.local(...args) for the functions above.
Apply(f, args) ==
    IF f.str = "count" THEN Num(Len(args))
    ELSE IF args = <<>> THEN JsUndefined ELSE args[1]

Returned(v) == [thrown |-> FALSE, status |-> 0, err |-> None, value |-> v]
Thrown(status, err) == [thrown |-> TRUE, status |-> status, err |-> err, value |-> JsUndefined]

Internal(svcs, name, args) ==
    LET service == svcs[name]
    IN  IF service = None THEN Thrown(404, "ServiceNotFound")
        ELSE IF ~Truthy(Local[service]) THEN Thrown(503, "NoLocalHandler")
        ELSE IF Local[service].type = "function" THEN Returned(Apply(Local[service], args))
        ELSE Returned(Local[service])

RECURSIVE ArgLists(_)
ArgLists(n) ==
    IF n = 0 THEN {<<>>}
    ELSE ArgLists(n - 1) \cup
         {Append(a, v) : a \in {b \in ArgLists(n - 1) : Len(b) = n - 1}, v \in {Num(0), Num(1)}}

\* The registry holds any descriptors of the two names; no gateway exists
\* and every allow-list is empty.
InitInternal ==
    /\ services \in {f \in [Names -> DescIds \cup {None}] :
                        \A n \in Names : f[n] # None => Desc[f[n]].name = n}
    /\ \E n \in Names, args \in ArgLists(MaxArgs) :
          ev = [kind |-> "input", name |-> n, args |-> args, out |-> Returned(JsUndefined)]
    /\ routers = [r \in RouterIds |-> NewRouter]
    /\ loadingPromises = [n \in Names |-> 0]
    /\ accessLists = [k \in Keys |-> {}]
    /\ lastAccess = NoAccess
    /\ gateways = [g \in GwIds |-> None]
    /\ calls = [c \in Calls |-> IdleCall]
    /\ hmr = {}
    /\ hookCalls = [d \in DescIds |-> 0]
    /\ cleanupCalls = [d \in DescIds |-> 0]
    /\ retired = {}
    /\ reloadDone = {}

InternalCall(name, args) ==
    /\ ev.kind = "input" /\ ev.name = name /\ ev.args = args
    /\ ev' = [kind |-> "internal", name |-> name, args |-> args,
              out |-> Internal(services, name, args)]
    /\ UNCHANGED <<routers, services, loadingPromises, accessLists, lastAccess, gateways,
                   calls, hmr, hookCalls, cleanupCalls, retired, reloadDone>>

NextInternal == \E n \in Names, args \in ArgLists(MaxArgs) : InternalCall(n, args)

SpecInternal == InitInternal /\ [][NextInternal]_vars

\* C26: Internal(name, args) fails with ServiceNotFound when the name is not
\* committed and with NoLocalHandler when the committed descriptor defines no
\* local; otherwise it returns the local value, or the result of calling it
\* with args when it is a function.
InternalReturnsLocal ==
    ev.kind = "internal" =>
        LET d == services[ev.name]
        IN  IF d = None THEN ev.out = Thrown(404, "ServiceNotFound")
            ELSE IF Local[d] = JsUndefined THEN ev.out = Thrown(503, "NoLocalHandler")
            ELSE IF Local[d].type = "function"
                 THEN ev.out = Returned(Apply(Local[d], ev.args))
                 ELSE ev.out = Returned(Local[d])

\* ------------------------------------------------------------------------
\* helpers: middleware(handle, ...middlewares)
\* ------------------------------------------------------------------------
\* The values a middleware function, an error handler or the final handler
\* throws or returns.  A Response carries a numeric status member, as the
\* errors error() makes do; a redirect carries status and location.
ResponseOf(code) == [type |-> "Response", hasStatus |-> TRUE, hasLocation |-> FALSE, code |-> code]
HttpError(code) == [type |-> "HttpError", hasStatus |-> TRUE, hasLocation |-> FALSE, code |-> code]
Redirect(code) == [type |-> "Redirect", hasStatus |-> TRUE, hasLocation |-> TRUE, code |-> code]
PlainError == [type |-> "Error", hasStatus |-> FALSE, hasLocation |-> FALSE, code |-> 0]
\* () => new Response(null, {status: code})
ResponseThunk(code) == [type |-> "function", hasStatus |-> FALSE, hasLocation |-> FALSE, code |-> code]

\* typeof error?.status === "number"
isHttpErrorLike(error) == error.hasStatus

\* typeof error?.location === "string"
isRedirectLike(error) == error.hasLocation

\* The promise of the wrapped handler resolves with a value or rejects with one.
Resolves(v) == [rejected |-> FALSE, value |-> v]
Rejects(v) == [rejected |-> TRUE, value |-> v]

\* Object.assign(target, source) that keeps the keys the target has.
AssignMissing(target, source) ==
    [n \in (DOMAIN target) \cup (DOMAIN source) |->
        IF n \in DOMAIN target THEN target[n] ELSE source[n]]

\* Object.assign(target, source).
ObjectAssign(target, source) == Merge(target, source)

\* What a middleware function does when called: it may push an error handler
\* on event.errorHandlers, then returns an object, returns something that is
\* not an object, or throws.
Returns(o) == [kind |-> "returns", object |-> TRUE, result |-> o, value |-> PlainError, handlers |-> <<>>]
ReturnsNothing == [kind |-> "returns", object |-> FALSE, result |-> <<>>, value |-> PlainError, handlers |-> <<>>]
Throws(v) == [kind |-> "throws", object |-> FALSE, result |-> <<>>, value |-> v, handlers |-> <<>>]
Registers(h, f) == [f EXCEPT !.handlers = <<h>>]

Responds(code) == [kind |-> "responds", value |-> ResponseOf(code)]
Passes == [kind |-> "passes", value |-> PlainError]
Rethrows(v) == [kind |-> "throws", value |-> v]

\* ------------------------------------------------------------------------
\* The middleware specification: overlapping calls of one wrapped handler
\* on one event object, one await at a time
\* ------------------------------------------------------------------------
\* The repository holds the wrapper twice: helpers/error.ts builds guardInput
\* as a new object and keeps the error handlers in an array of the call;
\* helpers/middleware.ts (the module index.ts exports middleware from) assigns
\* onto the event it is given.
Versions == {"error.ts", "middleware.ts"}

WrappedCalls == 1..MaxOverlap

\* A property value: what the caller had put there ("given"), a constant, or
\* an object made by call `of` (its error-handler array, its combined guard).
Value(tag, of) == [tag |-> tag, of |-> of]

\* An event is its own properties.
EventObjects ==
    {[n \in {"url"} \cup extra |-> Value("given", 0)] :
        extra \in SUBSET {"guard", "isAction", "callType"}}

\* helpers/error.ts: guardInput = {...event, isAction: false, callType:
\* 'method', get errorHandlers() {...}}, a new object.
PipelineFields(c) ==
    [n \in {"isAction", "callType", "errorHandlers"} |->
        IF n = "isAction" THEN Value("false", 0)
        ELSE IF n = "callType" THEN Value("method", 0) ELSE Value("array", c)]

\* helpers/middleware.ts: the source object of Object.assign(event, {...})
\* has __errorHandlers__ too; its getter is read and stored as a value, the
\* same new array.
AssignedFields(c) ==
    [n \in {"__errorHandlers__", "isAction", "callType", "errorHandlers"} |->
        IF n = "isAction" THEN Value("false", 0)
        ELSE IF n = "callType" THEN Value("method", 0) ELSE Value("array", c)]

GuardField(c) == [n \in {"guard"} |-> Value("object", c)]

GuardObjects ==
    {<<>>, [k \in {"a"} |-> 1], [k \in {"a"} |-> 2], [k \in {"b"} |-> 2],
     [k \in {"a", "b"} |-> 3]}

MiddlewareKinds ==
    {Returns(o) : o \in GuardObjects} \cup
    {ReturnsNothing, Throws(ResponseOf(401)), Throws(HttpError(401)), Throws(Redirect(302)),
     Throws(PlainError), Throws(ResponseThunk(401)),
     Registers(Responds(500), Returns(<<>>)), Registers(Passes, Returns(<<>>)),
     Registers(Rethrows(ResponseThunk(500)), Returns(<<>>))}

HandlerKinds ==
    {[kind |-> "returns", value |-> ResponseOf(200)], [kind |-> "throws", value |-> PlainError],
     [kind |-> "throws", value |-> ResponseOf(401)]}

RECURSIVE Pipelines(_)
Pipelines(n) ==
    IF n = 0 THEN {<<>>}
    ELSE Pipelines(n - 1) \cup
         {Append(q, f) : q \in {b \in Pipelines(n - 1) : Len(b) = n - 1}, f \in MiddlewareKinds}

\* One call of the wrapped handler: pc is the function the call awaits, i the
\* index of the awaited middleware function, combined the guard merged so
\* far, input the guardInput object of helpers/error.ts, err the error in
\* resolution, list the array its loop iterates and k the awaited error
\* handler.  log lists the functions the call has called, in order (the
\* index of a middleware function, 0 for the final handler), guard is
\* event.guard as the final handler received it, out the settled promise.
NoRun ==
    [pc |-> "idle", i |-> 0, combined |-> <<>>, input |-> <<>>, err |-> PlainError,
     list |-> 0, k |-> 0, log |-> <<>>, guard |-> <<>>, out |-> Resolves(PlainError)]

\* The array event.errorHandlers names for the functions of call c: the
\* call's own in helpers/error.ts; in helpers/middleware.ts the one on the
\* event, which is the array of the call that started last.
errorHandlersOf(P, c) ==
    IF P.version = "error.ts" THEN c ELSE P.event["errorHandlers"].of

settle(P, c, out) == [P EXCEPT !.run[c].pc = "done", !.run[c].out = out]

\* for (const errorHandler of input.errorHandlers): errorHandler(err) is
\* called and awaited, or, past the last handler the array holds by then,
\* `throw err`.
callErrorHandler(P, c, k) ==
    IF k > Len(P.arrays[P.run[c].list])
    THEN settle(P, c, Rejects(P.run[c].err))
    ELSE [P EXCEPT !.run[c].pc = "errorHandler", !.run[c].k = k]

\* helpers/error.ts, handleMiddlewareError(err, input) up to its first await.
handleMiddlewareError(P, c, err) ==
    IF isRedirectLike(err) \/ isHttpErrorLike(err) THEN settle(P, c, Rejects(err))
    ELSE IF err.type = "Response" THEN settle(P, c, Resolves(err))
    ELSE IF err.type = "function" THEN settle(P, c, Resolves(ResponseOf(err.code)))
    ELSE callErrorHandler([P EXCEPT !.run[c].err = err, !.run[c].list = errorHandlersOf(P, c)],
                          c, 1)

\* helpers/middleware.ts, MiddlewareErrorHandle(e, input) up to its first await.
MiddlewareErrorHandle(P, c, e) ==
    IF isRedirectLike(e) \/ isHttpErrorLike(e) THEN settle(P, c, Rejects(e))
    ELSE IF e.type = "function" THEN settle(P, c, Resolves(ResponseOf(e.code)))
    ELSE IF e.type = "Response" THEN settle(P, c, Resolves(e))
    ELSE callErrorHandler([P EXCEPT !.run[c].err = e, !.run[c].list = errorHandlersOf(P, c)],
                          c, 1)

\* catch (e) { return ...(e, guardInput); }
caught(P, c, e) ==
    IF P.version = "error.ts" THEN handleMiddlewareError(P, c, e)
    ELSE MiddlewareErrorHandle(P, c, e)

\* The awaited error handler has settled.  helpers/error.ts returns the
\* Response a handler returns, goes on after any other result, and re-runs
\* the resolution on what a handler throws.  helpers/middleware.ts ignores
\* what a handler returns; what a handler throws ends the call: a function
\* is called for the result, anything else is rethrown.
afterErrorHandler(P, c) ==
    LET h == P.arrays[P.run[c].list][P.run[c].k]
        thrown == IF h.kind = "rethrows" THEN P.run[c].err ELSE h.value
    IN  IF h.kind \in {"responds", "passes"}
        THEN IF P.version = "error.ts" /\ h.kind = "responds"
             THEN settle(P, c, Resolves(h.value))
             ELSE callErrorHandler(P, c, P.run[c].k + 1)
        ELSE IF P.version = "error.ts" THEN handleMiddlewareError(P, c, thrown)
        ELSE IF thrown.type = "function" THEN settle(P, c, Resolves(ResponseOf(thrown.code)))
        ELSE settle(P, c, Rejects(thrown))

\* mw(guardInput) is called and awaited: before it settles the function has
\* pushed the error handlers it registers on event.errorHandlers.
callMiddleware(P, c, i) ==
    [P EXCEPT !.arrays[errorHandlersOf(P, c)] = @ \o P.middlewares[i].handlers,
              !.run[c].pc = "middleware", !.run[c].i = i, !.run[c].log = Append(@, i)]

\* handle(Object.assign(guardInput, {guard: combined})) is called and awaited.
callHandle(P, c) ==
    [P EXCEPT !.run[c].pc = "handle", !.run[c].log = Append(@, 0),
              !.run[c].guard = P.run[c].combined,
              !.run[c].input = IF P.version = "error.ts"
                               THEN ObjectAssign(@, GuardField(c)) ELSE @,
              !.event = IF P.version = "error.ts" THEN @ ELSE ObjectAssign(@, GuardField(c))]

\* The for loop over the middleware functions, then the final handler.
nextFunction(P, c, i) ==
    IF i > Len(P.middlewares) THEN callHandle(P, c) ELSE callMiddleware(P, c, i)

\* wrapped(event), where wrapped = middleware(handle, ...middlewares), up to
\* its first await: guardInput is built (a new object, or the event itself
\* with the fields assigned and a new array) and the first function called.
middleware(P, c) ==
    nextFunction(IF P.version = "error.ts"
                 THEN [P EXCEPT !.run[c].input = Merge(P.event, PipelineFields(c))]
                 ELSE [P EXCEPT !.event = ObjectAssign(@, AssignedFields(c))],
                 c, 1)

\* The awaited middleware function has settled: its result is merged into
\* combined (helpers/error.ts merges objects only; Object.assign(combined,
\* undefined) of helpers/middleware.ts changes nothing either) and the next
\* function is called, or what it threw is caught.
afterMiddleware(P, c) ==
    LET mw == P.middlewares[P.run[c].i]
    IN  IF mw.kind = "throws" THEN caught(P, c, mw.value)
        ELSE nextFunction([P EXCEPT !.run[c].combined =
                                IF mw.object THEN ObjectAssign(@, mw.result) ELSE @],
                          c, P.run[c].i + 1)

\* The awaited final handler has settled.
afterHandle(P, c) ==
    IF P.handle.kind = "throws" THEN caught(P, c, P.handle.value)
    ELSE settle(P, c, Resolves(P.handle.value))

InitMiddleware ==
    /\ \E v \in Versions, e \in EventObjects, h \in HandlerKinds, q \in Pipelines(MaxMiddleware) :
          ev = [kind |-> "pipeline", version |-> v, handle |-> h, middlewares |-> q,
                given |-> e, event |-> e,
                arrays |-> [c \in WrappedCalls |-> <<>>],
                run |-> [c \in WrappedCalls |-> NoRun]]
    /\ routers = [r \in RouterIds |-> NewRouter]
    /\ services = [n \in Names |-> None]
    /\ loadingPromises = [n \in Names |-> 0]
    /\ accessLists = [k \in Keys |-> {}]
    /\ lastAccess = NoAccess
    /\ gateways = [g \in GwIds |-> None]
    /\ calls = [c \in Calls |-> IdleCall]
    /\ hmr = {}
    /\ hookCalls = [d \in DescIds |-> 0]
    /\ cleanupCalls = [d \in DescIds |-> 0]
    /\ retired = {}
    /\ reloadDone = {}

MiddlewareFrame ==
    UNCHANGED <<routers, services, loadingPromises, accessLists, lastAccess, gateways,
                calls, hmr, hookCalls, cleanupCalls, retired, reloadDone>>

\* wrapped(event) is called, while earlier calls may be awaiting.
CallWrapped(c) ==
    /\ ev.run[c].pc = "idle"
    /\ \A b \in WrappedCalls : b < c => ev.run[b].pc # "idle"
    /\ ev' = middleware(ev, c)
    /\ MiddlewareFrame

\* The continuation after `await mw(guardInput)`.
MiddlewareSettles(c) ==
    /\ ev.run[c].pc = "middleware"
    /\ ev' = afterMiddleware(ev, c)
    /\ MiddlewareFrame

\* The continuation after `await handle(...)`.
HandleSettles(c) ==
    /\ ev.run[c].pc = "handle"
    /\ ev' = afterHandle(ev, c)
    /\ MiddlewareFrame

\* The continuation after `await errorHandler(err)`.
ErrorHandlerReturns(c) ==
    /\ ev.run[c].pc = "errorHandler"
    /\ ev' = afterErrorHandler(ev, c)
    /\ MiddlewareFrame

NextMiddleware ==
    \E c \in WrappedCalls :
        \/ CallWrapped(c)
        \/ MiddlewareSettles(c)
        \/ HandleSettles(c)
        \/ ErrorHandlerReturns(c)

SpecMiddleware == InitMiddleware /\ [][NextMiddleware]_vars

AllReturn(q) == \A i \in 1..Len(q) : q[i].kind = "returns"

\* The middleware functions that returned an object holding key n.
Setters(q, n) == {i \in 1..Len(q) : q[i].object /\ n \in DOMAIN q[i].result}

LastSetter(q, n) == CHOOSE i \in Setters(q, n) : \A j \in Setters(q, n) : j <= i

MergedGuard(q, guard) ==
    /\ DOMAIN guard = UNION {DOMAIN q[i].result : i \in 1..Len(q)}
    /\ \A n \in DOMAIN guard : guard[n] = q[LastSetter(q, n)].result[n]

InProgress(c) == ev.run[c].pc \notin {"idle", "done"}

\* C28: in every call, whatever other call is in progress, the middleware
\* functions are called one at a time in the given order, up to the first
\* that throws; the final handler is called exactly once, last, when none
\* threw and not at all otherwise; the guard it receives holds exactly the
\* keys of the objects the middleware functions returned, each with the
\* value of the last function that returned it.
PipelineRunsInOrder ==
    \A c \in WrappedCalls :
        LET q == ev.middlewares
            log == ev.run[c].log
            handlerCalls == {i \in 1..Len(log) : log[i] = 0}
        IN  /\ \A i \in 1..Len(log) : log[i] # 0 => log[i] = i
            /\ \A i \in 1..Len(log) : (i < Len(log)) => q[i].kind = "returns"
            /\ ev.run[c].pc = "middleware" => log[Len(log)] = ev.run[c].i
            /\ handlerCalls # {} =>
                  /\ handlerCalls = {Len(q) + 1}
                  /\ Len(log) = Len(q) + 1
                  /\ MergedGuard(q, ev.run[c].guard)
            /\ ev.run[c].pc = "done" =>
                  IF AllReturn(q)
                  THEN handlerCalls = {Len(log)}
                  ELSE handlerCalls = {} /\ q[Len(log)].kind = "throws"

\* Two middleware functions returned objects with the same key; in a call
\* that ended while another call of the wrapped handler was awaiting its
\* second function, the final handler ran once, after both, and its guard
\* holds the value of the second.
LaterKeyOverrides ==
    /\ Len(ev.middlewares) = 2
    /\ ev.middlewares[1].result = [k \in {"a"} |-> 1]
    /\ ev.middlewares[2].result = [k \in {"a", "b"} |-> 3]
    /\ \E c, b \in WrappedCalls :
          /\ ev.run[c].pc = "done"
          /\ ev.run[c].log = <<1, 2, 0>>
          /\ ev.run[c].guard = [k \in {"a", "b"} |-> 3]
          /\ ev.run[b].pc = "middleware" /\ ev.run[b].i = 2

FirstThrow(q) == CHOOSE i \in 1..Len(q) : q[i].kind = "throws" /\ \A j \in 1..(i - 1) : q[j].kind = "returns"

\* C29: when a middleware function throws a Response, the wrapped handler
\* returns that Response, and neither the later middleware functions nor the
\* final handler are called.
ThrownResponseIsResult ==
    \A c \in WrappedCalls :
        (/\ ev.run[c].pc = "done" /\ ~AllReturn(ev.middlewares)
         /\ ev.middlewares[FirstThrow(ev.middlewares)].value.type = "Response") =>
            /\ ev.run[c].out = Resolves(ev.middlewares[FirstThrow(ev.middlewares)].value)
            /\ Len(ev.run[c].log) = FirstThrow(ev.middlewares)
            /\ \A i \in 1..Len(ev.run[c].log) : ev.run[c].log[i] = i

\* C34: after the wrapped handler has returned or thrown, the event it was
\* called with has exactly the properties and values it had before.
EventIsNotMutated ==
    (/\ \E c \in WrappedCalls : ev.run[c].pc = "done"
     /\ \A c \in WrappedCalls : ~InProgress(c)) => ev.event = ev.given

\* ------------------------------------------------------------------------
\* The sorting specification: a router built with mounts in any order, on
\* which routes are registered, discarded and reset between requests
\* ------------------------------------------------------------------------
SortPrefixes == {<<St("users")>>, <<St("users"), Pa("id")>>}

SortMounts == [prefix : SortPrefixes, router : {"r2"}]

SortTemplates == {<<St("a")>>, <<Pa("x")>>, <<Ca("z")>>}

SortPaths == {<<"a">>, <<"users", "1">>}

InitSort ==
    /\ \E n \in 0..MaxNested : \E ms \in [1..n -> SortMounts] :
          routers = [r \in RouterIds |-> IF r = "r1" THEN UseAll(NewRouter, ms) ELSE NewRouter]
    /\ services = [n \in Names |-> None]
    /\ loadingPromises = [n \in Names |-> 0]
    /\ accessLists = [k \in Keys |-> {}]
    /\ lastAccess = NoAccess
    /\ gateways = [g \in GwIds |-> None]
    /\ calls = [c \in Calls |-> IdleCall]
    /\ hmr = {}
    /\ hookCalls = [d \in DescIds |-> 0]
    /\ cleanupCalls = [d \in DescIds |-> 0]
    /\ retired = {}
    /\ reloadDone = {}
    /\ ev = NoEv

NextSort ==
    \/ \E t \in SortTemplates, h \in Handlers : AddHandler("r1", "GET", Text(t), h)
    \/ \E t \in SortPrefixes : Use("r1", Text(t), "r2")
    \/ \E t \in SortTemplates \cup SortPrefixes, m \in {"GET", None} : Discard("r1", Text(t), m)
    \/ Reset("r1")
    \/ \E p \in SortPaths : HandleObserved("r1", "GET", RawPath(p, FALSE))

SpecSort == InitSort /\ [][NextSort]_vars

IsSortedDesc(seq) == \A i \in 1..(Len(seq) - 1) : seq[i].priority >= seq[i + 1].priority

SameEntries(a, b) ==
    /\ Len(a) = Len(b)
    /\ \A i \in 1..Len(a) : \E j \in 1..Len(b) : b[j] = a[i]

\* The mounts of R that take the path.
TakenByMount(R, segs) == \E i \in 1..Len(R.nested) : matchesPrefix(segs, R.nested[i]) # -1

SortStep ==
    LET R == routers["r1"]
        Q == routers'["r1"]
    IN  /\ \A r \in RouterIds :
              /\ routers'[r].nestedSorted => IsSortedDesc(routers'[r].nested)
              /\ routers'[r].routesSorted =>
                     \A m \in Methods : IsSortedDesc(routers'[r].routesByMethod[m])
              /\ routers'[r].sortCalls.nested <= 1
              /\ routers'[r].sortCalls.routes <= 1
        /\ \A p \in SortPaths :
              HandleObserved("r1", "GET", RawPath(p, FALSE)) =>
                  /\ Q.nestedSorted /\ SameEntries(R.nested, Q.nested)
                  /\ R.nestedSorted => Q.nested = R.nested
                  /\ R.routesSorted => Q.routesByMethod = R.routesByMethod
                  /\ \A m \in Methods : SameEntries(R.routesByMethod[m], Q.routesByMethod[m])
                  /\ ~TakenByMount(R, p) => Q.routesSorted
                  /\ Q.routes = R.routes
                  /\ Q.sortCalls.nested =
                         R.sortCalls.nested + (IF R.nestedSorted THEN 0 ELSE 1)
                  /\ Q.sortCalls.routes =
                         R.sortCalls.routes +
                             (IF R.routesSorted \/ TakenByMount(R, p) THEN 0 ELSE 1)
        /\ ev'.kind # "handle" =>
              \A r \in RouterIds :
                  /\ routers'[r].sortCalls.nested <= routers[r].sortCalls.nested
                  /\ routers'[r].sortCalls.routes <= routers[r].sortCalls.routes

\* C30: between two calls that change a table (a registration, a mount, a
\* discard, a reset), the table is sorted at most once: the count of
\* sortNested() calls and of sortRoutes() calls since the table last changed
\* never exceeds one, in any router.  handle() calls sortNested() exactly
\* when the mounts are not flagged sorted, and sortRoutes() exactly when no
\* mount took the request and the routes are not flagged sorted; on a flagged
\* table it makes no sort call and leaves the table as it was; no other
\* operation sorts.  A table whose flag is set is in non-increasing priority
\* order, handle() leaves the mounts flagged and the routes too when no
\* mount took the request, and it only reorders (no entry is added or lost).
SortedOnceAndReused == [][SortStep]_vars

\* A request was dispatched on a router whose two routes, registered in
\* increasing priority, and whose mounts an earlier request had already
\* sorted: the request was served, no sort call was added, and the index of
\* GET is still in the sorted order, which is not the registration order.
ReusedWithoutSorting ==
    /\ ev.kind = "handle"
    /\ ev.out.status = 200
    /\ ev.before["r1"].routesSorted /\ ev.before["r1"].nestedSorted
    /\ ev.before["r1"].sortCalls = [routes |-> 1, nested |-> 1]
    /\ routers["r1"].sortCalls = [routes |-> 1, nested |-> 1]
    /\ Len(routers["r1"].nested) >= 1
    /\ Len(routers["r1"].routes) = 2
    /\ routers["r1"].routesByMethod["GET"] # routers["r1"].routes
    /\ IsSortedDesc(routers["r1"].routesByMethod["GET"])

\* ------------------------------------------------------------------------
\* The tie specification: routes and mounts of equal priority that match
\* the same paths
\* ------------------------------------------------------------------------
TiePrefixes == {<<St("m"), Pa("x")>>, <<St("m"), Pa("y")>>, <<St("m"), St("n")>>}

TieMounts == [prefix : TiePrefixes, router : {"r2"}]

TieTemplates == {<<Pa("x")>>, <<Pa("y")>>, <<St("a")>>}

TiePaths == {<<"a">>, <<"m", "n">>}

InitTie ==
    /\ \E n \in 0..MaxNested : \E ms \in [1..n -> TieMounts] :
          routers = [r \in RouterIds |-> IF r = "r1" THEN UseAll(NewRouter, ms) ELSE NewRouter]
    /\ services = [n \in Names |-> None]
    /\ loadingPromises = [n \in Names |-> 0]
    /\ accessLists = [k \in Keys |-> {}]
    /\ lastAccess = NoAccess
    /\ gateways = [g \in GwIds |-> None]
    /\ calls = [c \in Calls |-> IdleCall]
    /\ hmr = {}
    /\ hookCalls = [d \in DescIds |-> 0]
    /\ cleanupCalls = [d \in DescIds |-> 0]
    /\ retired = {}
    /\ reloadDone = {}
    /\ ev = NoEv

NextTie ==
    \/ \E t \in TieTemplates, h \in Handlers : AddHandler("r1", "GET", Text(t), h)
    \/ \E t \in TiePrefixes : Use("r1", Text(t), "r2")
    \/ \E t \in TieTemplates \cup TiePrefixes, m \in {"GET", None} : Discard("r1", Text(t), m)
    \/ \E p \in TiePaths : Handle("r1", "GET", RawPath(p, FALSE))

SpecTie == InitTie /\ [][NextTie]_vars

OfPriority(seq, k) == LET Has(x) == x.priority = k IN SelectSeq(seq, Has)

Priorities(seq) == {seq[i].priority : i \in 1..Len(seq)}

\* The route the claim names: of the given method, matching, of the highest
\* priority among those, and registered before the others of that priority.
FirstRegistered(R, method, segs) ==
    LET Cand == {i \in 1..Len(R.routes) :
                    R.routes[i].method = method /\ RouteMatches(R.routes[i].path, segs)}
    IN  IF Cand = {} THEN 0
        ELSE CHOOSE i \in Cand : \A j \in Cand :
                \/ R.routes[j].priority < R.routes[i].priority
                \/ (R.routes[j].priority = R.routes[i].priority /\ i <= j)

TieStep ==
    LET R == routers["r1"]
        Q == routers'["r1"]
    IN  \A p \in TiePaths :
          Handle("r1", "GET", RawPath(p, FALSE)) =>
              /\ \A k \in Priorities(R.nested) : OfPriority(Q.nested, k) = OfPriority(R.nested, k)
              /\ \A m \in Methods : \A k \in Priorities(R.routesByMethod[m]) :
                    OfPriority(Q.routesByMethod[m], k) = OfPriority(R.routesByMethod[m], k)
              /\ (NoMountMatches(R, p) /\ FirstRegistered(R, "GET", p) # 0) =>
                    ev'.out.handler = R.routes[FirstRegistered(R, "GET", p)].handler
              /\ (ev.kind = "handle" /\ ev.method = "GET" /\ ev.path = p) => ev'.out = ev.out

\* C31: handle() keeps the entries of equal priority of the mounts and of
\* every method's routes in the order they had (the order of registration,
\* which appends and discard's filter keep); the route it serves is, of the
\* matching routes of the method with the highest priority, the one
\* registered first; and a handle() that repeats the request of the step
\* before it has the same outcome.
TiesGoToFirstRegistered == [][TieStep]_vars

\* Two routes of equal priority match the path; after a discard rebuilt the
\* index and a registration, the one registered first was served.
FirstOfEqualPriorityServed ==
    /\ ev.kind = "handle" /\ ev.out.status = 200
    /\ Len(routers["r1"].routes) = 2
    /\ routers["r1"].routes[1].priority = routers["r1"].routes[2].priority
    /\ RouteMatches(routers["r1"].routes[2].path, ev.path)
    /\ ev.out.handler = routers["r1"].routes[1].handler
    /\ ev.out.handler # "h1"

\* ------------------------------------------------------------------------
\* The per-method index and the master list (checked under SpecRouter)
\* ------------------------------------------------------------------------
Occurrences(seq, x) == Cardinality({i \in 1..Len(seq) : seq[i] = x})

SameMultiset(a, b) ==
    /\ Len(a) = Len(b)
    /\ \A i \in 1..Len(a) : Occurrences(a, a[i]) = Occurrences(b, a[i])

\* C35: after any sequence of registrations, use, discard, reset and
\* handle, the per-method list of every method of every router holds
\* exactly the routes of that method in the master list, as a multiset.
IndexMatchesMaster ==
    \A r \in RouterIds, m \in Methods :
        LET OfMethod(x) == x.method = m
        IN  SameMultiset(routers[r].routesByMethod[m], SelectSeq(routers[r].routes, OfMethod))

\* Two GET routes are registered and a request has sorted the GET list into
\* an order that is not the master list's; the POST list is empty.
IndexOrderDiffersFromMaster ==
    LET R == routers["r1"]
        IsGet(x) == x.method = "GET"
    IN  /\ Len(R.routesByMethod["GET"]) = 2
        /\ R.routesByMethod["POST"] = <<>>
        /\ R.routesSorted
        /\ R.routesByMethod["GET"] # SelectSeq(R.routes, IsGet)
        /\ ev.kind = "handle"

\* ------------------------------------------------------------------------
\* The allow-list and the registry (checked under SpecGw)
\* ------------------------------------------------------------------------
ForbiddenStep ==
    LET answered == \/ \E g \in GwIds, n \in Names, m \in CalledMethods, p \in RegPaths :
                          Request(g, n, m, p) /\ ev'.kind = "request"
                    \/ Deliver
    IN  (answered /\ ev'.name \notin accessLists[gateways[ev'.gw]])
            => ev'.out = Failed(403, "Forbidden")

\* C36: a request for a name that is not on the gateway's allow-list is
\* answered Forbidden, whether or not a service of that name is committed.
ForbiddenIgnoresRegistry == [][ForbiddenStep]_vars

\* ------------------------------------------------------------------------
\* The overlap specification: Reload called while a Reload is waiting
\* ------------------------------------------------------------------------
\* The application has started: the module exporting d1 has been loaded (its
\* hook ran once, its HMR callbacks are registered) after the module
\* exporting d4, and both calls have returned; or nothing is loaded yet.
OverlapDescs == {"d1", "d2"}

\* What the re-evaluated module exports: d6 comes without import.meta of its
\* own and depends on "b".
AcceptedDescs == OverlapDescs \cup {"d6"}

InitOverlap ==
    /\ routers = [r \in RouterIds |->
                    IF r = "r1" THEN addHandler(NewRouter, "GET", Text(<<St("v")>>), "h1")
                    ELSE addHandler(NewRouter, "GET", Text(<<St("v")>>), "h2")]
    /\ \E started \in BOOLEAN :
          /\ services = [n \in Names |-> IF ~started THEN None
                                          ELSE IF n = "a" THEN "d1" ELSE "d4"]
          /\ hmr = IF started THEN {"d1"} ELSE {}
          /\ hookCalls = [d \in DescIds |-> IF started /\ d = "d1" THEN 1 ELSE 0]
    /\ loadingPromises = [n \in Names |-> 0]
    /\ accessLists = [k \in Keys |-> {}]
    /\ lastAccess = NoAccess
    /\ gateways = [g \in GwIds |-> None]
    /\ calls = [c \in Calls |-> IdleCall]
    /\ cleanupCalls = [d \in DescIds |-> 0]
    /\ retired = {}
    /\ reloadDone = {}
    /\ ev = NoEv

NextOverlap ==
    \/ \E c \in Calls, d \in OverlapDescs : LoadCall(c, d)
    \/ \E c \in Calls : LoadResume(c)
    \/ \E c \in Calls : LoadAfterDeps(c)
    \/ \E c \in Calls, ok \in BOOLEAN : HookSettles(c, ok)
    \/ \E c \in Calls : LoadAfterHook(c)
    \/ \E c \in Calls : LoadReturn(c)
    \/ \E c \in Calls : ReloadCall(c, "a")
    \/ \E c \in Calls, ok \in BOOLEAN : ReloadFinish(c, ok)
    \/ \E c \in Calls : HotDispose(c, "d1")
    \/ \E c \in Calls, next \in AcceptedDescs : HotAccept(c, "d1", next)
    \/ \E c \in Calls : AcceptLoad(c)

SpecOverlap == InitOverlap /\ [][NextOverlap]_vars

\* ------------------------------------------------------------------------
\* The cleanup hook of one registration (checked under SpecOverlap)
\* ------------------------------------------------------------------------
\* A Reload that is waiting for the cleanup hook of d has not yet removed
\* the registration it found; a step that invokes the hook of d meanwhile
\* invokes it for that same registration.
CleanupOnceStep ==
    \A d \in DescIds :
        cleanupCalls'[d] > cleanupCalls[d] =>
            ~\E c \in Calls : /\ calls[c].op = "reload"
                              /\ calls[c].pc = "awaitCleanup"
                              /\ calls[c].d = d

\* C37: the cleanup hook of a committed registration is invoked at most
\* once, also when Reload is called again (by a caller, the dispose or the
\* accept callback) before the first Reload has completed.
CleanupAtMostOnce == [][CleanupOnceStep]_vars

\* ------------------------------------------------------------------------
\* The descent specification: an acyclic mount graph over three routers,
\* with static, param, optional and empty prefixes
\* ------------------------------------------------------------------------
DescentPrefixes == {<<St("a")>>, <<Pa("x")>>, <<Op("o")>>, <<>>}

\* A router mounts only routers built after it.
DescentEdges == {<<"r1", "r2">>, <<"r1", "r3">>, <<"r2", "r3">>}

DescentPaths == {<<>>, <<"a">>, <<"a", "a">>, <<"b">>}

MountIf(R, on, prefix, child) == IF on THEN use(R, Text(prefix), child) ELSE R

InitDescent ==
    /\ \E mounted \in SUBSET DescentEdges, pre \in [DescentEdges -> DescentPrefixes] :
          routers = [r \in NestedRouterIds |->
            IF r = "r1"
            THEN MountIf(MountIf(addHandler(NewRouter, "GET", Text(<<St("a")>>), "h1"),
                                 <<"r1", "r2">> \in mounted, pre[<<"r1", "r2">>], "r2"),
                         <<"r1", "r3">> \in mounted, pre[<<"r1", "r3">>], "r3")
            ELSE IF r = "r2"
            THEN MountIf(addHandler(NewRouter, "GET", Text(<<>>), "h2"),
                         <<"r2", "r3">> \in mounted, pre[<<"r2", "r3">>], "r3")
            ELSE addHandler(addHandler(NewRouter, "GET", Text(<<Pa("x")>>), "h3"),
                            "POST", Text(<<>>), "h4")]
    /\ services = [n \in Names |-> None]
    /\ loadingPromises = [n \in Names |-> 0]
    /\ accessLists = [k \in Keys |-> {}]
    /\ lastAccess = NoAccess
    /\ gateways = [g \in GwIds |-> None]
    /\ calls = [c \in Calls |-> IdleCall]
    /\ hmr = {}
    /\ hookCalls = [d \in DescIds |-> 0]
    /\ cleanupCalls = [d \in DescIds |-> 0]
    /\ retired = {}
    /\ reloadDone = {}
    /\ ev = NoEv

NextDescent ==
    \E m \in CalledMethods, p \in DescentPaths : Handle("r1", m, RawPath(p, FALSE))

SpecDescent == InitDescent /\ [][NextDescent]_vars

\* C38: over an acyclic mount graph, whatever the method, the path and the
\* kinds of the prefixes, the routing of handle() ends, within as many
\* descents as there are routers below the first, in exactly one of two
\* ways: one handler (of a route of the request's method) is invoked, or
\* RouteNotFound is raised.
RoutingEndsOneWay ==
    ev.kind = "handle" =>
        /\ ev.out.err # "DepthExceeded"
        /\ \/ /\ ev.out.status = 200 /\ ev.out.err = None
              /\ \E r \in NestedRouterIds : \E i \in 1..Len(routers[r].routes) :
                    /\ routers[r].routes[i].handler = ev.out.handler
                    /\ routers[r].routes[i].method = ev.method
           \/ /\ ev.out.status = 404 /\ ev.out.err = "RouteNotFound"
              /\ ev.out.handler = None

\* A request went down two mounts, an empty prefix and an optional one, and
\* was served by the handler of the innermost router.
ServedTwoMountsDown ==
    /\ ev.kind = "handle"
    /\ ev.path = <<"a", "a">>
    /\ ev.out.handler = "h3"
    /\ Len(routers["r1"].nested) = 1
    /\ routers["r1"].nested[1].prefix = <<>>
    /\ routers["r1"].nested[1].router = "r2"
    /\ Len(routers["r2"].nested) = 1
    /\ routers["r2"].nested[1].prefix = <<Op("o")>>

\* ------------------------------------------------------------------------
\* The catch-all segment in a prefix and in a route (checked under SpecRegex)
\* ------------------------------------------------------------------------
\* The capture group of the i-th segment of a template.
GroupOf(t, i) == Cardinality({j \in 1..i : t[j].k # "static"})

HasSlash(str) == \E i \in 1..Len(str) : str[i] = "/"

EverySegmentTakesOne(t) == \A i \in 1..Len(t) : t[i].k # "optional"

\* C39: a catch-all segment of a mount prefix binds exactly one path
\* segment and the segments after it stay in the residual path; a catch-all
\* that ends a route template binds all the remaining segments.
PrefixCatchAllBindsOneSegment ==
    LET t == ev.template
        segs == ev.path.segs
        str == normalizePathString(PathString(ev.path))
    IN  /\ (ev.kind = "prefix" /\ ev.out.ok) =>
              \A i \in 1..Len(t) : t[i].k = "catchall" =>
                  LET cap == ev.out.caps[GroupOf(t, i)]
                  IN  /\ cap # Undefined /\ cap # <<>> /\ ~HasSlash(cap)
                      /\ EverySegmentTakesOne(t) =>
                            /\ cap = Spell(segs[i])
                            /\ remainingPath(str, ev.out)
                                  = PathString(RawPath(SubSeq(segs, Len(t) + 1, Len(segs)), FALSE))
        /\ (/\ ev.kind = "route" /\ ev.out.ok /\ t # <<>>
            /\ t[Len(t)].k = "catchall"
            /\ \A i \in 1..(Len(t) - 1) : t[i].k \in {"static", "param"}) =>
              ev.out.caps[GroupOf(t, Len(t))] = Tail(Render(SubSeq(segs, Len(t), Len(segs))))

\* The prefix '/[...z]' on '/a/ab/a' binds 'a' and leaves '/ab/a'.
CatchAllPrefixLeavesTheRest ==
    /\ ev.kind = "prefix"
    /\ ev.template = <<Ca("z")>>
    /\ ev.path = RawPath(<<"a", "ab", "a">>, FALSE)
    /\ ev.out.ok
    /\ ev.out.caps = <<<<"a">>>>
    /\ remainingPath(PathString(ev.path), ev.out) = <<"/", "a", "b", "/", "a">>

\* ------------------------------------------------------------------------
\* handleMiddlewareError, one await at a time
\* ------------------------------------------------------------------------
\* An error handler that throws the error it was given.
ThrowsGiven == [kind |-> "rethrows", value |-> PlainError]

ThrownValues == {PlainError, HttpError(401), Redirect(302), ResponseOf(401), ResponseThunk(500)}

ErrorHandlerKinds ==
    {Responds(500), Passes, ThrowsGiven, Rethrows(PlainError), Rethrows(HttpError(401)),
     Rethrows(ResponseThunk(500))}

ErrorHandlerLists == UNION {[1..n -> ErrorHandlerKinds] : n \in 0..MaxHandlers}

\* handleMiddlewareError(err, input) up to its loop: the pipeline's result,
\* or the position before the first error handler.
enterErrorResolution(err, handlers) ==
    IF isRedirectLike(err) \/ isHttpErrorLike(err)
    THEN [kind |-> "ended", pc |-> "done", err |-> err, i |-> 0, handlers |-> handlers,
          out |-> Rejects(err)]
    ELSE IF err.type = "Response"
    THEN [kind |-> "ended", pc |-> "done", err |-> err, i |-> 0, handlers |-> handlers,
          out |-> Resolves(err)]
    ELSE IF err.type = "function"
    THEN [kind |-> "ended", pc |-> "done", err |-> err, i |-> 0, handlers |-> handlers,
          out |-> Resolves(ResponseOf(err.code))]
    ELSE [kind |-> "resolving", pc |-> "loop", err |-> err, i |-> 1, handlers |-> handlers,
          out |-> Rejects(err)]

InitResolve ==
    /\ \E err \in ThrownValues, hs \in ErrorHandlerLists :
          ev = [kind |-> "input", pc |-> "thrown", err |-> err, i |-> 0, handlers |-> hs,
                out |-> Rejects(err)]
    /\ routers = [r \in RouterIds |-> NewRouter]
    /\ services = [n \in Names |-> None]
    /\ loadingPromises = [n \in Names |-> 0]
    /\ accessLists = [k \in Keys |-> {}]
    /\ lastAccess = NoAccess
    /\ gateways = [g \in GwIds |-> None]
    /\ calls = [c \in Calls |-> IdleCall]
    /\ hmr = {}
    /\ hookCalls = [d \in DescIds |-> 0]
    /\ cleanupCalls = [d \in DescIds |-> 0]
    /\ retired = {}
    /\ reloadDone = {}

ResolveFrame ==
    UNCHANGED <<routers, services, loadingPromises, accessLists, lastAccess, gateways,
                calls, hmr, hookCalls, cleanupCalls, retired, reloadDone>>

\* catch (e) { return await handleMiddlewareError(e, guardInput); }
HandleMiddlewareError ==
    /\ ev.kind = "input"
    /\ ev' = enterErrorResolution(ev.err, ev.handlers)
    /\ ResolveFrame

\* The for loop: errorHandler(err) is called and awaited, or, past the last
\* handler, `throw err`.
CallErrorHandler ==
    /\ ev.kind = "resolving" /\ ev.pc = "loop"
    /\ ev' = IF ev.i > Len(ev.handlers)
             THEN [ev EXCEPT !.kind = "ended", !.pc = "done", !.out = Rejects(ev.err)]
             ELSE [ev EXCEPT !.pc = "await"]
    /\ ResolveFrame

\* The awaited handler settles: a Response is returned, nothing lets the
\* loop go on, a throw re-runs handleMiddlewareError on the thrown value.
ErrorHandlerSettles ==
    /\ ev.kind = "resolving" /\ ev.pc = "await"
    /\ LET h == ev.handlers[ev.i]
       IN  ev' = IF h.kind = "responds"
                 THEN [ev EXCEPT !.kind = "ended", !.pc = "done", !.out = Resolves(h.value)]
                 ELSE IF h.kind = "passes"
                 THEN [ev EXCEPT !.pc = "loop", !.i = ev.i + 1]
                 ELSE IF h.kind = "rethrows"
                 THEN enterErrorResolution(ev.err, ev.handlers)
                 ELSE enterErrorResolution(h.value, ev.handlers)
    /\ ResolveFrame

NextResolve ==
    \/ HandleMiddlewareError
    \/ CallErrorHandler
    \/ ErrorHandlerSettles

\* Every continuation of the async function is run.
SpecResolve == InitResolve /\ [][NextResolve]_vars /\ WF_vars(NextResolve)

\* C40: for every finite list of error handlers the resolution of a thrown
\* error ends: the handlers are invoked a bounded number of times, also
\* when handlers throw, and the pipeline returns a Response or rethrows.
ErrorResolutionEnds == (ev.kind = "input") ~> (ev.kind = "ended")

\* ------------------------------------------------------------------------
\* ServiceManager.createServiceRequest: the split of the request path
\* ------------------------------------------------------------------------
\* The segments of a SvelteKit route id: a literal, a param '[name]', a
\* group '(name)', a rest param '[...name]'.
RouteIdSegments == {"static", "param", "group", "catchall"}

\* routeId.filter(e => !(e.startsWith('(') && e.endsWith(')')))
WithoutGroups(routeId) == LET Counted(k) == k # "group" IN SelectSeq(routeId, Counted)

\* findIndex(segment => segment.startsWith('[...')), zero-based; -1 when absent.
RECURSIVE findCatchAll(_, _)
findCatchAll(ids, i) ==
    IF i > Len(ids) THEN -1
    ELSE IF ids[i] = "catchall" THEN i - 1
    ELSE findCatchAll(ids, i + 1)

Min(a, b) == IF a < b THEN a ELSE b

\* '/' + parts.join('/') for the base, and parts.length > 0 ? '/' +
\* parts.join('/') : '/' for the service path: the same string.
SlashJoined(parts) == IF parts = <<>> THEN <<"/">> ELSE Render(parts)

\* createServiceRequest(event) with event.route.id = routeId and
\* event.url.pathname = p: route.base and route.service, or the Error thrown.
createServiceRequest(routeId, p) ==
    LET requestedFullPath == p.segs
        catchAllIndex == findCatchAll(WithoutGroups(routeId), 1)
        n == Min(IF catchAllIndex = -1 THEN 0 ELSE catchAllIndex, Len(requestedFullPath))
    IN  IF catchAllIndex = -1
        THEN [failed |-> TRUE, base |-> <<>>, service |-> <<>>]
        ELSE [failed |-> FALSE,
              base |-> SlashJoined(SubSeq(requestedFullPath, 1, n)),
              service |-> SlashJoined(SubSeq(requestedFullPath, n + 1, Len(requestedFullPath)))]

RouteIds == UNION {[1..n -> RouteIdSegments] : n \in 0..MaxRouteId}

InitSplit ==
    /\ \E id \in RouteIds, p \in RegexPaths :
          ev = [kind |-> "input", routeId |-> id, path |-> p,
                out |-> [failed |-> FALSE, base |-> <<>>, service |-> <<>>]]
    /\ routers = [r \in RouterIds |-> NewRouter]
    /\ services = [n \in Names |-> None]
    /\ loadingPromises = [n \in Names |-> 0]
    /\ accessLists = [k \in Keys |-> {}]
    /\ lastAccess = NoAccess
    /\ gateways = [g \in GwIds |-> None]
    /\ calls = [c \in Calls |-> IdleCall]
    /\ hmr = {}
    /\ hookCalls = [d \in DescIds |-> 0]
    /\ cleanupCalls = [d \in DescIds |-> 0]
    /\ retired = {}
    /\ reloadDone = {}

CreateServiceRequest(id, p) ==
    /\ ev.kind = "input" /\ ev.routeId = id /\ ev.path = p
    /\ ev' = [ev EXCEPT !.kind = "split", !.out = createServiceRequest(id, p)]
    /\ UNCHANGED <<routers, services, loadingPromises, accessLists, lastAccess, gateways,
                   calls, hmr, hookCalls, cleanupCalls, retired, reloadDone>>

NextSplit == \E id \in RouteIds, p \in RegexPaths : CreateServiceRequest(id, p)

SpecSplit == InitSplit /\ [][NextSplit]_vars

\* The position the claim names: the number of segments, groups not
\* counted, before the first catch-all segment of the route id; -1 when the
\* route id has none.
CatchAllPosition(routeId) ==
    LET ids == WithoutGroups(routeId)
        At == {i \in 1..Len(ids) : ids[i] = "catchall"}
    IN  IF At = {} THEN -1 ELSE (CHOOSE i \in At : \A j \in At : i <= j) - 1

\* C33: the split fails when the route id has no catch-all segment;
\* otherwise the service path is '/' plus the request segments from the
\* catch-all's position on ('/' when there are none), the base is '/' plus
\* the segments before it, and the base followed by the service path is the
\* request path.
SplitReproducesPath ==
    ev.kind = "split" =>
        LET at == CatchAllPosition(ev.routeId)
            n == Min(at, Len(ev.path.segs))
        IN  IF at = -1 THEN ev.out.failed
            ELSE /\ ~ev.out.failed
                 /\ ev.out.base = <<"/">> \o Tail(SlashJoined(SubSeq(ev.path.segs, 1, n)))
                 /\ ev.out.service = SlashJoined(SubSeq(ev.path.segs, n + 1, Len(ev.path.segs)))
                 /\ ev.out.base \o ev.out.service = PathString(ev.path)

\* ------------------------------------------------------------------------
\* The dispatch specification: a service without a route member and a
\* service whose route member is a method map, behind one gateway
\* ------------------------------------------------------------------------
DispatchDescs == {"d4", "d7"}

NextDispatch ==
    \/ \E c \in Calls, d \in DispatchDescs : LoadCall(c, d)
    \/ \E c \in Calls : LoadResume(c)
    \/ \E c \in Calls : LoadReturn(c)
    \/ \E c \in Calls : ReloadCall(c, "b")
    \/ Base("g1", "default")
    \/ \E S \in SUBSET {"b"} : Access("g1", S)
    \/ \E m \in CalledMethods : Request("g1", "b", m, <<"v">>)
    \/ Deliver

SpecDispatch == Init /\ [][NextDispatch]_vars

DispatchStep ==
    (ev.kind = "selected" /\ ev'.kind = "request") =>
        LET route == Desc[ev.svc].route
            out == ev'.out
        IN  IF ev.name \notin accessLists[gateways[ev.gw]]
            THEN out = Failed(403, "Forbidden")
            ELSE IF route.kind = "none"
            THEN out = Failed(503, "ServiceUnavailable")
            ELSE (route.kind = "map" /\ ev.method \notin route.map) =>
                     out = Failed(405, "MethodNotAllowed")

\* C27: the step that dispatches a resolved request refuses it with 403
\* Forbidden when the service is not on the gateway's allow-list, whatever
\* its route member; with 503 ServiceUnavailable when it is allowed and has
\* no route member; with 405 MethodNotAllowed when it is allowed and its
\* method map lacks the request's method; none of these outcomes names a
\* handler.
DispatchChecksInOrder == [][DispatchStep]_vars

\* A request for the committed service without a route member, not on the
\* allow-list, was refused with 403.
ForbiddenBeforeRouteCheck ==
    /\ Resolved
    /\ Desc[ev.svc].route.kind = "none"
    /\ ev.name \notin accessLists[GwKey]
    /\ ev.out = Failed(403, "Forbidden")
    /\ ev.out.handler = None

\* ------------------------------------------------------------------------
\* The failing-cleanup specification: every cleanup hook throws
\* ------------------------------------------------------------------------
CleanupDescs == {"d1", "d2"}

NextCleanup ==
    \/ \E c \in Calls, d \in CleanupDescs : LoadCall(c, d)
    \/ \E c \in Calls : LoadResume(c)
    \/ \E c \in Calls, ok \in BOOLEAN : HookSettles(c, ok)
    \/ \E c \in Calls : LoadAfterHook(c)
    \/ \E c \in Calls : LoadReturn(c)
    \/ \E c \in Calls : ReloadCall(c, "a")
    \/ \E c \in Calls : ReloadFinish(c, FALSE)
    \/ \E c \in Calls, next \in CleanupDescs : HotAccept(c, "d1", next)
    \/ \E c \in Calls : AcceptLoad(c)
    \/ Base("g1", "default")
    \/ Access("g1", {"a"})
    \/ Request("g1", "a", "GET", <<"v">>)
    \/ Deliver

SpecCleanup == Init /\ [][NextCleanup]_vars

CleanupFailureStep(c) ==
    LET call == calls'[c]
    IN  /\ (calls[c].op = "reload" /\ calls[c].pc = "awaitCleanup" /\ call # calls[c]) =>
               /\ call.op = "reload" /\ call.pc = "done" /\ call.res = "ok"
               /\ call.cleanupFailed
               /\ RouterIsEmpty(routers'[Desc[call.d].route.router])
               /\ services'[call.name] = None
               /\ loadingPromises'[call.name] = 0
        /\ (call.op = "load" /\ call.pc = "done" /\ calls[c].pc # "done"
               /\ call.afterReload /\ ~call.raced
               /\ call.depErr = None /\ call.hook \notin {"failed", "threw"}) =>
               /\ call.res = "ok"
               /\ call.committed /\ call.d \in CleanupDescs

\* C25: when the cleanup hook fails, the step that ends the Reload still
\* resets the service's router, removes the name from the committed and the
\* in-flight table and completes without raising; a Load of the name that
\* follows, overlaps no other Load and whose own hook does not fail
\* succeeds and has committed its descriptor.
FailedCleanupDoesNotAbort == [][\A c \in Calls : CleanupFailureStep(c)]_vars

\* The cleanup hook of d1 was called and threw; the Reload went on, and the
\* Load the accept callback started afterwards has committed the new
\* descriptor of the name.
LoadedAgainAfterFailedCleanup ==
    /\ cleanupCalls["d1"] >= 1
    /\ "a" \in reloadDone
    /\ services["a"] = "d2"
    /\ \E c \in Calls : /\ calls[c].op = "load" /\ calls[c].pc = "done"
                         /\ calls[c].afterReload /\ calls[c].res = "ok" /\ calls[c].d = "d2"

\* ------------------------------------------------------------------------
\* The reset specification: a router with routes and a mount is reset,
\* asked, and registered again
\* ------------------------------------------------------------------------
ResetPaths == {<<"a">>, <<"b">>, <<"a", "b">>}

NextReset ==
    \/ \E m \in CalledMethods, p \in RouteTexts, h \in Handlers : AddHandler("r1", m, p, h)
    \/ \E h \in Handlers : AddHandler("r2", "GET", Text(<<St("b")>>), h)
    \/ Use("r1", Text(<<St("a")>>), "r2")
    \/ ResetObserved("r1")
    \/ \E m \in CalledMethods, p \in ResetPaths : Handle("r1", m, RawPath(p, FALSE))

SpecReset == InitRouter /\ [][NextReset]_vars

IsCleared(R) ==
    /\ R.routes = <<>>
    /\ R.nested = <<>>
    /\ \A m \in Methods : R.routesByMethod[m] = <<>>

ResetStep ==
    /\ ResetObserved("r1") => IsCleared(routers'["r1"])
    /\ \A m \in Methods, p \in ResetPaths :
          Handle("r1", m, RawPath(p, FALSE)) =>
              LET R == routers["r1"]
              IN  /\ (R.routes = <<>> /\ R.nested = <<>>) =>
                        /\ ev'.out = RouteNotFound(m, p)
                        /\ IsCleared(routers'["r1"])
                  /\ (R.nested = <<>> /\ Len(R.routes) = 1 /\ R.routes[1].method = m
                        /\ RouteMatches(R.routes[1].path, p)) =>
                        ev'.out.handler = R.routes[1].handler

\* C24: reset() leaves the router without routes, without index entries and
\* without mounts in the one step; a handle on a router whose route and
\* mount lists are empty fails RouteNotFound for every method and path; and
\* a router that holds one route (the state after reset and one
\* registration) serves a matching request of that method with that route.
ResetClearsInOneStep == [][ResetStep]_vars

\* reset() has just cleared a router that held routes and a mount.
ResetOfPopulatedRouter ==
    /\ ev.kind = "reset"
    /\ ev.before.routes # <<>> /\ ev.before.nested # <<>>
    /\ IsCleared(routers["r1"])

\* C22: discard(template, method) removes the routes of that template and
\* that method and nothing else: the other routes stay registered, in their
\* order, and stay in the index of their method, from which handle serves
\* them; the mounts are left as they were.
DiscardRemovesOnlyThePair == [][DiscardOfMethod]_vars

\* discard(p, 'GET') has just removed a route (the router held a GET route
\* of the string and holds none now): the POST route of the same string is
\* still indexed, and the mount is still there.
OtherMethodSurvivesDiscard ==
    /\ ev.kind = "discard" /\ ev.method = "GET"
    /\ \E i \in 1..Len(ev.before.routes) :
          ev.before.routes[i].text = ev.path /\ ev.before.routes[i].method = "GET"
    /\ \A i \in 1..Len(routers["r1"].routes) :
          ~(routers["r1"].routes[i].text = ev.path /\ routers["r1"].routes[i].method = "GET")
    /\ \E i \in 1..Len(routers["r1"].routesByMethod["POST"]) :
          routers["r1"].routesByMethod["POST"][i].text = ev.path
    /\ routers["r1"].nested # <<>>

DiscardWithoutMethod ==
    \A p \in DiscardTexts :
        DiscardObserved("r1", p, None) =>
            /\ \A i \in 1..Len(routers'["r1"].routes) : routers'["r1"].routes[i].text # p
            /\ \A i \in 1..Len(routers'["r1"].nested) :
                  routers'["r1"].nested[i].text # normalizePrefix(p)

\* C23: after discard(p) without a method the router holds no route of
\* template p and no mount that use(p, child) registered, that is, no mount
\* whose stored prefix is the normalized p.
DiscardUndoesRegistrations == [][DiscardWithoutMethod]_vars

====
